---- MODULE Spec2Model ----
(***************************************************************************)
(* A model of the ScrapeBadger Node SDK: the request engine of BaseClient   *)
(* (executeWithRetry, fetchWithTimeout, handleResponse, sleep) with the     *)
(* error classes it throws, the construction of the client (resolveConfig,  *)
(* the ScrapeBadger constructor) and pagination (createPaginatedResponse,   *)
(* the paginate generator).                                                 *)
(*                                                                          *)
(* Times are in milliseconds, as in the code.  JavaScript strings are       *)
(* sequences of one-character strings, so that toLowerCase and includes     *)
(* are computed.  An optional value (T | undefined) is <<>> when undefined  *)
(* and <<v>> otherwise.                                                     *)
(***************************************************************************)
EXTENDS Integers, Sequences, FiniteSets, TLC

VARIABLES
    config,      \* the ResolvedConfig of the client (read-only after construction)
    pc,          \* where the one request of executeWithRetry stands
    attempt,     \* the loop variable of executeWithRetry
    lastError,   \* the lastError local of executeWithRetry
    now,         \* Date.now()
    timer,       \* the pending setTimeout of fetchWithTimeout, if any
    aborted,     \* controller.signal.aborted of the attempt in flight
    sleepFor,    \* the duration of the sleep in progress
    outcome,     \* what request() settled with: a value or a thrown error
    nAttempts,   \* history: number of fetch calls issued
    sleeps,      \* history: the durations slept, in order
    attemptErr,  \* history: the error object the latest failed attempt threw
    lastResp,    \* history: the latest response received
    trace,       \* history: how each attempt made so far ended
    hrIn,        \* classification alone: the response handed to handleResponse
    hrOut        \* classification alone: what handleResponse did with it

VARIABLES
    ctorIn,      \* construction: the config argument and process.env of new ScrapeBadger
    ctorOut      \* construction: what the constructor did, and the calls it made

VARIABLES
    upstream,    \* pagination: the listings the API holds, in page order
    maxItems,    \* pagination: options.maxItems
    optionsCursor,\* pagination: options.cursor of the iterator method called
    pgPc,        \* pagination: where the paginate generator stands
    pgCursor,    \* the cursor local of paginate
    pgResponse,  \* the response local of paginate
    pgIndex,     \* the position of the for...of loop in response.data
    totalYielded,\* the totalYielded local of paginate
    yielded,     \* history: the items handed to the consumer, in order
    fetchLog,    \* history: the cursor of each fetchPage call, in order
    sentLog,     \* history: the search parameters of each request sent, in order
    fetchTick,   \* history: the parity of the number of fetchPage calls
    waiting,     \* the consumer has called next() and awaits its result
    inFlight,    \* history: fetchPage calls issued and not yet settled
    rejected,    \* history: the error a fetchPage call rejected with
    pgThrown,    \* the error the generator ended with, as next() rejects with it
    items,       \* the items local of collectAll
    collectOut   \* what collectAll settled with: its list or a thrown error

VARIABLES
    reqIn,       \* request building: the client's config and the arguments of request
    reqOut       \* request building: what request hands to executeWithRetry

VARIABLES
    travUpstream,\* two traversals: the pages the fetchPage they share reads
    travs,       \* two traversals: each generator's position, options and history
    locals       \* two traversals: the locals of the activations of paginate

VARIABLES
    sharedConfig,\* concurrent requests: this.config of the client they are made on
    calls,       \* concurrent requests: each call's position, result and history
    frames,      \* concurrent requests: the locals of the calls' activations
    clock        \* concurrent requests: Date.now()

ctorVars == <<ctorIn, ctorOut>>

reqVars == <<reqIn, reqOut>>

\* The state of the calls made on a client beside the one the engine follows.
travVars == <<travUpstream, travs, locals>>

concVars == <<sharedConfig, calls, frames, clock>>

apiVars == <<reqVars, travVars, concVars>>

pgVars == <<upstream, maxItems, optionsCursor, pgPc, pgCursor, pgResponse, pgIndex, totalYielded,
            yielded, fetchLog, sentLog, fetchTick, waiting, inFlight, rejected, pgThrown,
            items, collectOut>>

\* The state of the SDK outside BaseClient.
libVars == <<ctorVars, pgVars, apiVars>>

vars == <<config, pc, attempt, lastError, now, timer, aborted, sleepFor, outcome,
          nAttempts, sleeps, attemptErr, lastResp, trace, hrIn, hrOut, libVars>>

engineVars == <<config, pc, attempt, lastError, now, timer, aborted, sleepFor,
                outcome, nAttempts, sleeps, attemptErr, lastResp, trace>>

----------------------------------------------------------------------------
(* Optional values *)

None == <<>>
Some(v) == <<v>>
IsSome(o) == o /= <<>>
Get(o) == o[1]

\* a ?? b
Coalesce(a, b) == IF IsSome(a) THEN a ELSE b

----------------------------------------------------------------------------
(* Strings *)

Upper == <<"A","B","C","D","E","F","G","H","I","J","K","L","M",
           "N","O","P","Q","R","S","T","U","V","W","X","Y","Z">>
Lower == <<"a","b","c","d","e","f","g","h","i","j","k","l","m",
           "n","o","p","q","r","s","t","u","v","w","x","y","z">>

ToLowerChar(c) ==
    IF \E i \in DOMAIN Upper : Upper[i] = c
    THEN Lower[CHOOSE i \in DOMAIN Upper : Upper[i] = c]
    ELSE c

\* Mutant: the letter case is kept.
ToLowerCaseKept(s) == s

\* String.prototype.toLowerCase
ToLowerCase(s) == [i \in DOMAIN s |-> ToLowerChar(s[i])]

\* String.prototype.includes
Includes(s, needle) ==
    \E i \in 0..(Len(s) - Len(needle)) :
        \A j \in 1..Len(needle) : s[i + j] = needle[j]

Restricted == <<"r","e","s","t","r","i","c","t","e","d">>

RequestFailed == <<"R","e","q","u","e","s","t"," ","f","a","i","l","e","d">>

----------------------------------------------------------------------------
(* The error classes *)

\* The prototype chain of an error object, by its class.
ProtoChain(name) ==
    IF name \in {"AuthenticationError", "RateLimitError", "NotFoundError",
                 "ValidationError", "ServerError", "TimeoutError",
                 "InsufficientCreditsError", "AccountRestrictedError"}
    THEN {name, "ScrapeBadgerError", "Error"}
    ELSE IF name = "ScrapeBadgerError" THEN {"ScrapeBadgerError", "Error"}
    ELSE IF name \in {"TypeError", "SyntaxError"} THEN {name, "Error"}
    ELSE {name}

\* error instanceof cls
InstanceOf(error, cls) == cls \in ProtoChain(error.name)

ScrapeBadgerError(message) ==
    [name |-> "ScrapeBadgerError", message |-> message]

AuthenticationError(message) ==
    [name |-> "AuthenticationError", message |-> message]

\* Mutant: a remaining count of 0 is dropped (|| undefined).
RateLimitErrorFalsyRemaining(message, options) ==
    [name |-> "RateLimitError", message |-> message,
     retryAfter |-> options.retryAfter, limit |-> options.limit,
     remaining |-> IF options.remaining = Some(0) THEN None ELSE options.remaining]

RateLimitError(message, options) ==
    [name |-> "RateLimitError", message |-> message,
     retryAfter |-> options.retryAfter, limit |-> options.limit,
     remaining |-> options.remaining]

NotFoundError(message) ==
    [name |-> "NotFoundError", message |-> message,
     resourceType |-> None, resourceId |-> None]

ValidationError(message, errors) ==
    [name |-> "ValidationError", message |-> message, errors |-> errors]

ServerError(message, statusCode) ==
    [name |-> "ServerError", message |-> message, statusCode |-> statusCode]

\* Mutant: the error carries the default timeout, not the configured one.
TimeoutErrorDefault(timeout) ==
    [name |-> "TimeoutError", message |-> <<"t","i","m","e","d"," ","o","u","t">>,
     timeout |-> 30000]

TimeoutError(timeout) ==
    [name |-> "TimeoutError", message |-> <<"t","i","m","e","d"," ","o","u","t">>,
     timeout |-> timeout]

InsufficientCreditsError(message, creditsBalance) ==
    [name |-> "InsufficientCreditsError", message |-> message,
     creditsBalance |-> creditsBalance]

AccountRestrictedError(message, reason) ==
    [name |-> "AccountRestrictedError", message |-> message, reason |-> reason]

\* What the runtime throws, outside the SDK's classes.
TypeError == [name |-> "TypeError", message |-> <<>>]
SyntaxError == [name |-> "SyntaxError", message |-> <<>>]
AbortError == [name |-> "AbortError", message |-> <<>>]

----------------------------------------------------------------------------
(* handleResponse *)

Return(v) == [tag |-> "return", value |-> v]
Throw(e) == [tag |-> "throw", error |-> e]

\* A JSON object as the code reads it: the ErrorResponse fields and the payload.
EmptyObject ==
    [detail |-> None, message |-> None, errors |-> None, limit |-> None,
     remaining |-> None, reset_at |-> None, reason |-> None,
     credits_balance |-> None, data |-> None]

\* contentType?.includes("application/json")
IsJsonContentType(contentType) ==
    IsSome(contentType) /\ Get(contentType) \in {"application/json", "application/json; charset=utf-8"}

\* Mutant: only 200 counts as success.
OkOnly200(status) == status = 200

\* response.ok
Ok(status) == status >= 200 /\ status <= 299

\* response.json(): the parsed value, or a SyntaxError.
Json(body) ==
    IF body.form = "json" THEN Return(body.value) ELSE Throw(SyntaxError)

\* response.text()
Text(body) == body.text

\* Mutant: an empty detail or message counts as none (|| in place of ??).
ExtractMessageFalsy(errorData) ==
    IF IsSome(errorData.detail) /\ Get(errorData.detail) /= <<>> THEN Get(errorData.detail)
    ELSE IF IsSome(errorData.message) /\ Get(errorData.message) /= <<>>
    THEN Get(errorData.message)
    ELSE RequestFailed

\* errorData.detail ?? errorData.message ?? "Request failed"
ExtractMessage(errorData) ==
    Get(Coalesce(errorData.detail, Coalesce(errorData.message, Some(RequestFailed))))

\* Mutant: 500 itself is not taken for a server error, and 402 falls through.
ClassifyErrorShifted(status, errorData) ==
    LET message == ExtractMessage(errorData) IN
    CASE status = 401 -> AuthenticationError(message)
      [] status = 403 ->
            IF Includes(ToLowerCase(message), Restricted)
            THEN AccountRestrictedError(message, errorData.reason)
            ELSE AuthenticationError(message)
      [] status = 404 -> NotFoundError(message)
      [] status = 422 -> ValidationError(message, errorData.errors)
      [] status = 429 ->
            RateLimitError(message, [retryAfter |-> errorData.reset_at,
                                     limit |-> errorData.limit,
                                     remaining |-> errorData.remaining])
      [] OTHER ->
            IF status > 500
            THEN ServerError(message, status)
            ELSE ScrapeBadgerError(message)

\* The switch on response.status.
ClassifyError(status, errorData) ==
    LET message == ExtractMessage(errorData) IN
    CASE status = 401 -> AuthenticationError(message)
      [] status = 402 -> InsufficientCreditsError(message, errorData.credits_balance)
      [] status = 403 ->
            IF Includes(ToLowerCase(message), Restricted)
            THEN AccountRestrictedError(message, errorData.reason)
            ELSE AuthenticationError(message)
      [] status = 404 -> NotFoundError(message)
      [] status = 422 -> ValidationError(message, errorData.errors)
      [] status = 429 ->
            RateLimitError(message, [retryAfter |-> errorData.reset_at,
                                     limit |-> errorData.limit,
                                     remaining |-> errorData.remaining])
      [] OTHER ->
            IF status >= 500
            THEN ServerError(message, status)
            ELSE ScrapeBadgerError(message)

\* The body as handleResponse parses it: a value (an object, or <<>> for null).
ParseBody(response) ==
    IF IsJsonContentType(response.contentType)
    THEN Json(response.body)
    ELSE Return(Some([EmptyObject EXCEPT !.detail = Some(Text(response.body))]))

HandleResponse(response) ==
    LET parsed == ParseBody(response) IN
    IF parsed.tag = "throw" THEN parsed
    ELSE IF Ok(response.status) THEN Return(parsed.value)
    ELSE IF ~IsSome(parsed.value) THEN Throw(TypeError)   \* null.detail
    ELSE Throw(ClassifyError(response.status, Get(parsed.value)))

----------------------------------------------------------------------------
(* Bounds and inputs *)

\* The largest maxRetries a configuration is given.
MaxMaxRetries == 3

\* resolveConfig validates nothing but the API key: maxRetries may be negative.
MaxRetriesValues == -1..MaxMaxRetries
RetryDelayValues == {1000, 2000}
TimeoutValues == {5000}

Configs ==
    [maxRetries : MaxRetriesValues, retryDelay : RetryDelayValues,
     timeout : TimeoutValues]

\* Date.now() when the request starts.
StartTime == 1000 * 1000

MsgForbidden == <<"F","o","r","b","i","d","d","e","n">>
MsgAccountRestricted ==
    <<"A","c","c","o","u","n","t"," ","r","e","s","t","r","i","c","t","e","d",":",
      " ","p","o","l","i","c","y"," ","v","i","o","l","a","t","i","o","n">>
MsgUpper == <<"R","E","S","T","R","I","C","T","E","D">>
MsgMixed == <<"I","P"," ","R","e","S","t","R","i","C","t","E","d","!">>
MsgNear == <<"r","e","s","t","r","i","c","t"," ","e","d">>
MsgEmpty == <<>>
MsgPolicy == <<"p","o","l","i","c","y">>

\* reset_at values a 429 body may carry, in seconds relative to the server's clock.
ResetDeltas == {0, 10, 59, 60}

ResetValues(t) == {None, Some(0)} \cup {Some(t \div 1000 + d) : d \in ResetDeltas}

JsonBody(obj) == [form |-> "json", value |-> Some(obj)]
NullBody == [form |-> "json", value |-> None]
MalformedBody == [form |-> "malformed"]
TextBody(text) == [form |-> "text", text |-> text]

Response(status, contentType, body) ==
    [status |-> status, contentType |-> contentType, body |-> body]

EngineStatuses == {200, 204, 400, 401, 402, 403, 404, 409, 422, 429, 500, 503}

\* The responses the server may give to an attempt made at time t.
EngineResponses(t) ==
    {Response(st, Some("application/json"),
              JsonBody([EmptyObject EXCEPT !.data = Some("payload")])) :
        st \in EngineStatuses \ {429}}
    \cup
    {Response(403, Some("application/json"),
              JsonBody([EmptyObject EXCEPT !.detail = Some(MsgAccountRestricted),
                                           !.reason = Some(MsgPolicy)]))}
    \cup
    {Response(429, Some("application/json"),
              JsonBody([EmptyObject EXCEPT !.detail = Some(MsgForbidden),
                                           !.reset_at = r])) :
        r \in ResetValues(t)}
    \cup
    {Response(st, Some("application/json"), b) :
        st \in {200, 503}, b \in {NullBody, MalformedBody}}
    \cup
    {Response(st, None, TextBody(MsgForbidden)) : st \in {200, 403}}
    \cup
    {Response(502, Some("text/html"), TextBody(MsgUpper))}

----------------------------------------------------------------------------
(* executeWithRetry, fetchWithTimeout, sleep *)

\* An error object: the error and the identity of the object holding it.
Obj(id, e) == [id |-> id, e |-> e]

\* Mutant: a NotFoundError is no longer rethrown at once.
IsFatalWithoutNotFound(error) ==
    /\ InstanceOf(error, "ScrapeBadgerError")
    /\ ~InstanceOf(error, "RateLimitError")
    /\ \/ InstanceOf(error, "AuthenticationError")
       \/ InstanceOf(error, "ValidationError")
       \/ InstanceOf(error, "InsufficientCreditsError")
       \/ InstanceOf(error, "AccountRestrictedError")

\* Mutant: every SDK error but a RateLimitError is rethrown at once.
IsFatalEveryClientError(error) ==
    /\ InstanceOf(error, "ScrapeBadgerError")
    /\ ~InstanceOf(error, "RateLimitError")

\* The errors executeWithRetry rethrows at once.
IsFatal(error) ==
    /\ InstanceOf(error, "ScrapeBadgerError")
    /\ ~InstanceOf(error, "RateLimitError")
    /\ \/ InstanceOf(error, "AuthenticationError")
       \/ InstanceOf(error, "NotFoundError")
       \/ InstanceOf(error, "ValidationError")
       \/ InstanceOf(error, "InsufficientCreditsError")
       \/ InstanceOf(error, "AccountRestrictedError")

\* Mutant: the loop gives up one attempt early.
LastAttemptEarly(k, cfg) == k + 1 >= cfg.maxRetries

\* Mutant: the loop admits one attempt more.
LoopConditionOneMore(k, cfg) == k <= cfg.maxRetries + 1

\* attempt <= this.config.maxRetries, the condition of the for loop.
LoopCondition(k, cfg) == k <= cfg.maxRetries

\* attempt === this.config.maxRetries
LastAttempt(k, cfg) == k = cfg.maxRetries

\* Mutant: the backoff grows linearly.
BackoffDelayLinear(retryDelay, k) == retryDelay * (k + 1)

\* retryDelay * Math.pow(2, attempt)
BackoffDelay(retryDelay, k) == retryDelay * 2^k

\* A number | undefined in a condition.
Truthy(o) == IsSome(o) /\ Get(o) /= 0

\* (error.retryAfter - Date.now() / 1000) * 1000
ServerDelay(retryAfter, t) == retryAfter * 1000 - t

\* Mutant: a server delay of exactly 60 s is still taken.
SleepDurationInclusive(error, k, t, cfg) ==
    LET delay == BackoffDelay(cfg.retryDelay, k) IN
    IF InstanceOf(error, "RateLimitError") /\ Truthy(error.retryAfter)
    THEN LET retryDelay == ServerDelay(Get(error.retryAfter), t) IN
         IF retryDelay > 0 /\ retryDelay <= 60000 THEN retryDelay ELSE delay
    ELSE delay

\* Mutant: the continue after the server-provided sleep is missing, so that the
\* exponential sleep follows it.
SleepDurationBoth(error, k, t, cfg) ==
    LET delay == BackoffDelay(cfg.retryDelay, k) IN
    IF InstanceOf(error, "RateLimitError") /\ Truthy(error.retryAfter)
    THEN LET retryDelay == ServerDelay(Get(error.retryAfter), t) IN
         IF retryDelay > 0 /\ retryDelay < 60000 THEN retryDelay + delay ELSE delay
    ELSE delay

\* The duration executeWithRetry sleeps after a failed attempt k that is retried.
SleepDuration(error, k, t, cfg) ==
    LET delay == BackoffDelay(cfg.retryDelay, k) IN
    IF InstanceOf(error, "RateLimitError") /\ Truthy(error.retryAfter)
    THEN LET retryDelay == ServerDelay(Get(error.retryAfter), t) IN
         IF retryDelay > 0 /\ retryDelay < 60000 THEN retryDelay ELSE delay
    ELSE delay

\* Mutant: the error after the loop is always a new generic error.
AfterLoopWrapped(le) ==
    Throw(Obj(0, ScrapeBadgerError(<<"a","f","t","e","r"," ","r","e","t","r","i","e","s">>)))

\* throw lastError ?? new ScrapeBadgerError("Request failed after retries")
AfterLoop(le) ==
    IF IsSome(le) THEN Throw(Get(le))
    ELSE Throw(Obj(0, ScrapeBadgerError(<<"a","f","t","e","r"," ","r","e","t","r","i","e","s">>)))

\* History: whether a response received at time t is a 429 whose body carries a
\* reset timestamp less than 60 s and more than 0 s ahead of t.
UsableReset(response, t) ==
    /\ response.status = 429
    /\ IsSome(response.contentType) /\ response.body.form = "json"
    /\ IsSome(response.body.value)
    /\ LET reset == Get(response.body.value).reset_at IN
       /\ IsSome(reset)
       /\ Get(reset) * 1000 > t
       /\ Get(reset) * 1000 < t + 60000

\* History: how an attempt that received a response at time t ended, by the status.
ResponseEnd(response, t) ==
    CASE response.status \in 200..299 -> "2xx"
      [] response.status \in {401, 402, 403, 404, 422} -> "fatal"
      [] response.status = 429 ->
            IF UsableReset(response, t) THEN "rl_usable" ELSE "rl"
      [] response.status >= 500 -> "5xx"
      [] OTHER -> "generic"

\* No client is being constructed.
CtorIdle ==
    /\ ctorIn = None
    /\ ctorOut = None

\* No request is being built.
ReqIdle ==
    /\ reqIn = None
    /\ reqOut = None

\* No second traversal exists.
TravIdle ==
    /\ travUpstream = <<>>
    /\ travs = <<>>
    /\ locals = <<>>

\* No concurrent requests are made.
ConcIdle ==
    /\ sharedConfig = None
    /\ calls = <<>>
    /\ frames = <<>>
    /\ clock = 0

\* No other call is made on the client.
ApiIdle ==
    /\ ReqIdle
    /\ TravIdle
    /\ ConcIdle

\* No paginate traversal exists.
PgIdle ==
    /\ upstream = <<>>
    /\ maxItems = None
    /\ optionsCursor = None
    /\ pgPc = "idle"
    /\ pgCursor = None
    /\ pgResponse = None
    /\ pgIndex = 0
    /\ totalYielded = 0
    /\ yielded = <<>>
    /\ fetchLog = <<>>
    /\ sentLog = <<>>
    /\ fetchTick = 0
    /\ waiting = FALSE
    /\ inFlight = 0
    /\ rejected = None
    /\ pgThrown = None
    /\ items = <<>>
    /\ collectOut = None

Init ==
    /\ CtorIdle
    /\ PgIdle
    /\ ApiIdle
    /\ config \in Configs
    /\ pc = "start"
    /\ attempt = 0
    /\ lastError = None
    /\ now = StartTime
    /\ timer = None
    /\ aborted = FALSE
    /\ sleepFor = 0
    /\ outcome = None
    /\ nAttempts = 0
    /\ sleeps = <<>>
    /\ attemptErr = None
    /\ lastResp = None
    /\ trace = <<>>
    /\ hrIn = None
    /\ hrOut = None

\* Mutant: the finally block is missing, the timer stays pending.
ClearTimeoutForgotten(tm) == tm

\* clearTimeout(timeoutId) in the finally block of fetchWithTimeout.
ClearTimeout(tm) == None

\* The head of the for loop with attempt = k, at time t: the next
\* fetchWithTimeout call, or the throw after the loop.
LoopHead(k, t) ==
    /\ attempt' = k
    /\ IF LoopCondition(k, config)
       THEN /\ pc' = "fetching"
            /\ timer' = Some([attempt |-> k, due |-> t + config.timeout])
            /\ aborted' = FALSE
            /\ nAttempts' = nAttempts + 1
            /\ outcome' = outcome
       ELSE /\ pc' = "thrown"
            /\ outcome' = Some(AfterLoop(lastError))
            /\ UNCHANGED <<timer, aborted, nAttempts>>

\* The catch block of executeWithRetry, entered at time t with the error object.
Catch(error, t) ==
    /\ lastError' = Some(error)
    /\ IF IsFatal(error.e)
       THEN /\ pc' = "thrown"
            /\ outcome' = Some(Throw(error))
            /\ UNCHANGED <<sleepFor, sleeps>>
       ELSE IF LastAttempt(attempt, config)
       THEN /\ pc' = "thrown"
            /\ outcome' = Some(AfterLoop(lastError'))
            /\ UNCHANGED <<sleepFor, sleeps>>
       ELSE /\ pc' = "sleeping"
            /\ sleepFor' = SleepDuration(error.e, attempt, t, config)
            /\ sleeps' = Append(sleeps, sleepFor')
            /\ outcome' = outcome

\* request() reaches executeWithRetry: the loop starts with attempt = 0.
ExecuteWithRetry ==
    /\ pc = "start"
    /\ LoopHead(0, now)
    /\ UNCHANGED <<config, lastError, now, sleepFor, sleeps, attemptErr, lastResp,
                   trace, hrIn, hrOut, libVars>>

\* fetch resolves with a response before the timer fires; the finally block clears
\* the timer and handleResponse runs.
FetchResponds ==
    /\ pc = "fetching" /\ ~aborted
    /\ \E response \in EngineResponses(now) :
        LET r == HandleResponse(response) IN
        /\ lastResp' = Some(response)
        /\ trace' = Append(trace, ResponseEnd(response, now))
        /\ timer' = ClearTimeout(timer)
        /\ IF r.tag = "return"
           THEN /\ pc' = "returned"
                /\ outcome' = Some(r)
                /\ UNCHANGED <<lastError, attemptErr, sleepFor, sleeps>>
           ELSE /\ attemptErr' = Some(Obj(nAttempts, r.error))
                /\ Catch(Obj(nAttempts, r.error), now)
    /\ UNCHANGED <<config, attempt, now, aborted, nAttempts, hrIn, hrOut, libVars>>

\* fetch rejects with an error that is no abort (a network failure): fetchWithTimeout
\* rethrows it.
FetchFails ==
    /\ pc = "fetching" /\ ~aborted
    /\ timer' = ClearTimeout(timer)
    /\ trace' = Append(trace, "network")
    /\ attemptErr' = Some(Obj(nAttempts, TypeError))
    /\ Catch(Obj(nAttempts, TypeError), now)
    /\ UNCHANGED <<config, attempt, now, aborted, nAttempts, lastResp, hrIn, hrOut, libVars>>

\* The timer of fetchWithTimeout fires after config.timeout: controller.abort().
TimerFires ==
    /\ pc = "fetching" /\ ~aborted
    /\ IsSome(timer)
    /\ now' = Get(timer).due
    /\ timer' = None
    /\ aborted' = TRUE
    /\ UNCHANGED <<config, pc, attempt, lastError, sleepFor, outcome, nAttempts,
                   sleeps, attemptErr, lastResp, trace, hrIn, hrOut, libVars>>

\* The aborted fetch rejects with an AbortError, which fetchWithTimeout turns into
\* a TimeoutError.
FetchAborted ==
    /\ pc = "fetching" /\ aborted
    /\ timer' = ClearTimeout(timer)
    /\ trace' = Append(trace, "timeout")
    /\ attemptErr' = Some(Obj(nAttempts, TimeoutError(config.timeout)))
    /\ Catch(Obj(nAttempts, TimeoutError(config.timeout)), now)
    /\ UNCHANGED <<config, attempt, now, aborted, nAttempts, lastResp, hrIn, hrOut, libVars>>

\* Mutant: the promise of sleep is never resolved.
SleepResolvesNever(ms) == FALSE

\* new Promise((resolve) => setTimeout(resolve, ms)): the timer calls resolve,
\* whatever ms is.
SleepResolves(ms) == TRUE

\* The sleep ends and the loop goes on with attempt + 1.
SleepEnds ==
    /\ pc = "sleeping"
    /\ SleepResolves(sleepFor)
    /\ now' = now + sleepFor
    /\ LoopHead(attempt + 1, now + sleepFor)
    /\ UNCHANGED <<config, lastError, sleepFor, sleeps, attemptErr, lastResp,
                   trace, hrIn, hrOut, libVars>>

Next ==
    \/ ExecuteWithRetry
    \/ FetchResponds
    \/ FetchFails
    \/ TimerFires
    \/ FetchAborted
    \/ SleepEnds

Spec == Init /\ [][Next]_vars

\* The requests followed to their end: those of the configs with one retry
\* delay and a maxRetries below the largest.
InitLive ==
    /\ Init
    /\ config.maxRetries < MaxMaxRetries
    /\ config.retryDelay = 1000

\* The request is made, every fetch settles with a response or a failure or is
\* aborted by its timer, the aborted fetch rejects, and every sleep ends.
SpecLive ==
    /\ InitLive
    /\ [][Next]_vars
    /\ WF_vars(ExecuteWithRetry)
    /\ WF_vars(FetchResponds \/ FetchFails \/ TimerFires)
    /\ WF_vars(FetchAborted)
    /\ WF_vars(SleepEnds)


----------------------------------------------------------------------------
(* handleResponse alone *)

Messages == {MsgForbidden, MsgAccountRestricted, MsgUpper, MsgMixed, MsgNear, MsgEmpty}

ClassifyStatuses ==
    {200, 201, 299, 300, 304, 400, 401, 402, 403, 404, 409, 418, 422, 429, 451,
     499, 500, 502, 503, 599}

ClassifyObjects ==
    {[EmptyObject EXCEPT !.detail = d, !.message = m, !.reason = rs,
                         !.credits_balance = cb, !.errors = er, !.reset_at = ra,
                         !.limit = lm, !.remaining = rm] :
        d \in {None} \cup {Some(x) : x \in Messages},
        m \in {None, Some(MsgUpper), Some(MsgForbidden)},
        rs \in {None, Some(MsgPolicy)},
        cb \in {None, Some(0)},
        er \in {None, Some("fieldErrors")},
        ra \in {None, Some(1700000000)},
        lm \in {None, Some(100)},
        rm \in {None, Some(0)}}

ClassifyResponses ==
    {Response(st, Some(ct), JsonBody(o)) :
        st \in ClassifyStatuses,
        ct \in {"application/json", "application/json; charset=utf-8"},
        o \in ClassifyObjects}
    \cup
    {Response(st, Some("application/json"), b) :
        st \in ClassifyStatuses, b \in {NullBody, MalformedBody}}
    \cup
    {Response(st, ct, TextBody(x)) :
        st \in ClassifyStatuses, ct \in {None, Some("text/html")}, x \in Messages}

InitClassify ==
    /\ config = [maxRetries |-> 0, retryDelay |-> 1000, timeout |-> 5000]
    /\ pc = "classify"
    /\ attempt = 0
    /\ lastError = None
    /\ now = StartTime
    /\ timer = None
    /\ aborted = FALSE
    /\ sleepFor = 0
    /\ outcome = None
    /\ nAttempts = 0
    /\ sleeps = <<>>
    /\ attemptErr = None
    /\ lastResp = None
    /\ trace = <<>>
    /\ hrIn \in {Some(r) : r \in ClassifyResponses}
    /\ hrOut = None
    /\ CtorIdle
    /\ PgIdle
    /\ ApiIdle

\* handleResponse is applied to the response.
Classify ==
    /\ pc = "classify"
    /\ hrOut = None
    /\ hrOut' = Some(HandleResponse(Get(hrIn)))
    /\ UNCHANGED <<engineVars, hrIn, libVars>>

NextClassify == Classify

SpecClassify == InitClassify /\ [][NextClassify]_vars


----------------------------------------------------------------------------
(* Configuration and client construction *)

DEFAULT_BASE_URL == "https://api.scrapebadger.com"

DEFAULT_TIMEOUT == 30000

DEFAULT_MAX_RETRIES == 3

DEFAULT_RETRY_DELAY == 1000

\* new Error(message)
PlainError(message) == [name |-> "Error", message |-> message]

\* The message of the constructor's own check.
ApiKeyRequiredMessage ==
    "API key is required. Pass it in the config or set SCRAPEBADGER_API_KEY environment variable."

\* Mutant: only an undefined string is refused, the empty string passes.
FalsyStringUndefinedOnly(s) == ~IsSome(s)

\* !s, for s: string | undefined
FalsyString(s) == ~IsSome(s) \/ Get(s) = ""

\* Mutant: a default replaces every falsy value (|| in place of ??).
ResolveConfigFalsyDefaults(cfg) ==
    LET Or(a, b) == IF IsSome(a) /\ Get(a) /= 0 THEN a ELSE b
        OrString(a, b) == IF IsSome(a) /\ Get(a) /= "" THEN a ELSE b
    IN
    IF FalsyString(cfg.apiKey)
    THEN Throw(PlainError("API key is required"))
    ELSE Return([apiKey     |-> Get(cfg.apiKey),
                 baseUrl    |-> Get(OrString(cfg.baseUrl, Some(DEFAULT_BASE_URL))),
                 timeout    |-> Get(Or(cfg.timeout, Some(DEFAULT_TIMEOUT))),
                 maxRetries |-> Get(Or(cfg.maxRetries, Some(DEFAULT_MAX_RETRIES))),
                 retryDelay |-> Get(Or(cfg.retryDelay, Some(DEFAULT_RETRY_DELAY)))])

ResolveConfig(cfg) ==
    IF FalsyString(cfg.apiKey)
    THEN Throw(PlainError("API key is required"))
    ELSE Return([apiKey     |-> Get(cfg.apiKey),
                 baseUrl    |-> Get(Coalesce(cfg.baseUrl, Some(DEFAULT_BASE_URL))),
                 timeout    |-> Get(Coalesce(cfg.timeout, Some(DEFAULT_TIMEOUT))),
                 maxRetries |-> Get(Coalesce(cfg.maxRetries, Some(DEFAULT_MAX_RETRIES))),
                 retryDelay |-> Get(Coalesce(cfg.retryDelay, Some(DEFAULT_RETRY_DELAY)))])

\* process.env is None where there is no process or no process.env.
GetApiKeyFromEnv(env) ==
    IF IsSome(env) THEN Get(env).SCRAPEBADGER_API_KEY ELSE None

\* new BaseClient(config)
BaseClient(cfg) == [config |-> cfg]

\* new TwitterClient(client)
TwitterClient(client) == [client |-> client]

\* new ScrapeBadger(config): what it returns or throws, and the calls it makes
\* on the way, in order.
NewScrapeBadger(cfg, env) ==
    LET read   == IF IsSome(cfg.apiKey) THEN <<>> ELSE <<"getApiKeyFromEnv">>
        apiKey == Coalesce(cfg.apiKey, GetApiKeyFromEnv(env))
    IN  IF FalsyString(apiKey)
        THEN [result |-> Throw(PlainError(ApiKeyRequiredMessage)), calls |-> read]
        ELSE LET resolved == ResolveConfig([cfg EXCEPT !.apiKey = apiKey]) IN
             IF resolved.tag = "throw"
             THEN [result |-> resolved, calls |-> read \o <<"resolveConfig">>]
             ELSE LET baseClient == BaseClient(resolved.value) IN
                  [result |-> Return([baseClient |-> baseClient,
                                      twitter    |-> TwitterClient(baseClient)]),
                   calls  |-> read \o <<"resolveConfig", "BaseClient", "TwitterClient">>]

\* The config arguments: every field absent or given, the numbers also as 0.
CtorConfigs ==
    [apiKey     : {None, Some(""), Some("config-api-key")},
     baseUrl    : {None, Some("https://custom.api.com")},
     timeout    : {None, Some(0), Some(60000)},
     maxRetries : {None, Some(0), Some(5)},
     retryDelay : {None, Some(0), Some(2000)}]

\* process.env: missing, or with SCRAPEBADGER_API_KEY unset, empty or set.
Environments ==
    {None} \cup
    {Some([SCRAPEBADGER_API_KEY |-> k]) : k \in {None, Some(""), Some("env-api-key")}}

\* No client exists and no request was made.
InitConstruct ==
    /\ config = [maxRetries |-> 0, retryDelay |-> 1000, timeout |-> 5000]
    /\ pc = "noclient"
    /\ attempt = 0
    /\ lastError = None
    /\ now = StartTime
    /\ timer = None
    /\ aborted = FALSE
    /\ sleepFor = 0
    /\ outcome = None
    /\ nAttempts = 0
    /\ sleeps = <<>>
    /\ attemptErr = None
    /\ lastResp = None
    /\ trace = <<>>
    /\ hrIn = None
    /\ hrOut = None
    /\ CtorIdle
    /\ PgIdle
    /\ ApiIdle

\* new ScrapeBadger(cfg) is evaluated under the environment env.
Construct ==
    /\ pc = "noclient"
    /\ ctorOut = None
    /\ \E cfg \in CtorConfigs, env \in Environments :
          /\ ctorIn' = Some([config |-> cfg, env |-> env])
          /\ ctorOut' = Some(NewScrapeBadger(cfg, env))
    /\ UNCHANGED <<engineVars, hrIn, hrOut, pgVars, apiVars>>

NextConstruct == Construct

SpecConstruct == InitConstruct /\ [][NextConstruct]_vars

----------------------------------------------------------------------------
(* Objects and the search parameters of a URL *)

\* The engine makes no request; label tells which part of the SDK is followed.
EngineIdle(label) ==
    /\ config = [maxRetries |-> 0, retryDelay |-> 1000, timeout |-> 5000]
    /\ pc = label
    /\ attempt = 0
    /\ lastError = None
    /\ now = StartTime
    /\ timer = None
    /\ aborted = FALSE
    /\ sleepFor = 0
    /\ outcome = None
    /\ nAttempts = 0
    /\ sleeps = <<>>
    /\ attemptErr = None
    /\ lastResp = None
    /\ trace = <<>>
    /\ hrIn = None
    /\ hrOut = None

\* Mutant: the caller's headers are spread before the defaults.
SpreadDefaultsLast(base, over) ==
    [k \in DOMAIN base \cup DOMAIN over |-> IF k \in DOMAIN base THEN base[k] ELSE over[k]]

\* { ...base, ...over } of two objects, as functions from their keys: a key of
\* over replaces the same key of base.
Spread(base, over) ==
    [k \in DOMAIN base \cup DOMAIN over |-> IF k \in DOMAIN over THEN over[k] ELSE base[k]]

\* The object with no key: the default of the headers option, the search
\* parameters of a URL that was given none.
NoEntries == [k \in {} |-> ""]

\* String(value) of a parameter, a value with its type: a string is itself, a
\* number is its decimals, a boolean (1 for true, 0 for false) is "true" or
\* "false".
StringOf(x) ==
    CASE x.type = "string" -> x.v
      [] x.type = "number" -> ToString(x.v)
      [] x.type = "boolean" -> IF x.v = 1 THEN "true" ELSE "false"

\* url.searchParams after the loop over params: the keys whose value is not
\* undefined, each set to String(value).
SearchParams(params) ==
    IF params = None THEN NoEntries
    ELSE LET p == Get(params) IN
         [k \in {x \in DOMAIN p : p[x] /= None} |-> StringOf(Get(p[k]))]

----------------------------------------------------------------------------
(* Pagination: createPaginatedResponse and the paginate generator *)

\* The longest upstream, in pages.
MaxPages == 3

\* The largest page, in items.
MaxPageSize == 2

\* The largest maxItems.
MaxCap == 4

\* createPaginatedResponse(data, cursor): hasMore is !!cursor.
CreatePaginatedResponse(data, cursorArg) ==
    [data |-> data, nextCursor |-> cursorArg, hasMore |-> ~FalsyString(cursorArg)]

\* The cursor the API gives for page k.
CursorOf(k) == ToString(k)

\* Mutant: the cursor is not forwarded to the request.
PageNumberFirst(up, cur) == 1

\* The page a request with this cursor reads: the first page without a cursor,
\* the page the cursor names otherwise (paginate passes no other cursor; one
\* that names no page is read as none).
PageNumber(up, cur) ==
    IF IsSome(cur) /\ \E k \in DOMAIN up : CursorOf(k) = Get(cur)
    THEN CHOOSE k \in DOMAIN up : CursorOf(k) = Get(cur)
    ELSE 1

\* A page method called with a cursor option (search, getFollowers, ...): the
\* listing is requested with the cursor and wrapped by createPaginatedResponse.
FetchPage(up, cur) ==
    LET listing == up[PageNumber(up, cur)] IN
    CreatePaginatedResponse(listing.data, listing.next_cursor)

\* Mutant: the caller's options are spread after the cursor of the call.
PageOptionsCallerWins(options, cursor) == SpreadDefaultsLast(options, [cursor |-> cursor])

\* { ...options, cursor } in the fetchPage closure of an iterator method: the
\* options the page method is called with.  cursor is a key of the literal also
\* when its value is undefined.
PageOptions(options, cursor) == Spread(options, [cursor |-> cursor])

\* params: { cursor: options.cursor } in a page method.
PageParams(options) ==
    [cursor |-> IF options.cursor = None THEN None
                ELSE Some([type |-> "string", v |-> Get(options.cursor)])]

\* The search parameters of the request that fetchPage(cursor) of an iterator
\* method called with options sends.
IteratorRequest(options, cursor) ==
    SearchParams(Some(PageParams(PageOptions(options, cursor))))

\* The cursor parameter of a request, as the API reads it.
QueryCursor(query) == IF "cursor" \in DOMAIN query THEN Some(query.cursor) ELSE None

\* fetchPage(cursor) of an iterator method called with options: the page the
\* API gives for the request sent.
IteratorFetchPage(up, options, cursor) ==
    FetchPage(up, QueryCursor(IteratorRequest(options, cursor)))

\* The options argument of the iterator method.
IteratorOptions == [cursor |-> optionsCursor, maxItems |-> maxItems]

\* while (cursor)
WhileCursor(cur) == ~FalsyString(cur)

\* Mutant: the for...of loop leaves a page after its first item.
HasItemFirstOnly(resp, i) == i <= Len(resp.data) /\ i <= 1

\* for (const item of response.data): there is an item at position i.
HasItem(resp, i) == i <= Len(resp.data)

\* Mutant: the cap stops the traversal one item late.
CapReachedStrict(cap, total) == IsSome(cap) /\ total > Get(cap)

\* maxItems !== undefined && totalYielded >= maxItems
CapReached(cap, total) == IsSome(cap) /\ total >= Get(cap)

\* The requests the consumer makes at most: more than any traversal that ends
\* needs.
RequestLimit == MaxPages * MaxPageSize + MaxCap

\* The fetchPage calls fetchLog records at most: more than any traversal that
\* ends makes.
FetchLimit == MaxPages * (MaxCap + 1)

\* The listing of page k: its items, and the cursor it gives.
Listing(k, size, next) ==
    [data |-> [j \in 1..size |-> <<k, j>>], next_cursor |-> next]

\* The upstreams: 1..MaxPages pages of 0..MaxPageSize items.  A page before the
\* last gives the cursor of the next page or an empty cursor; the last page
\* gives no cursor, an empty cursor, or the cursor of page 1 (an upstream that
\* never ends).
Upstreams ==
    UNION {
      { [k \in 1..n |->
            Listing(k, size[k],
                    IF kind[k] = "absent" THEN None
                    ELSE IF kind[k] = "empty" THEN Some("")
                    ELSE IF k < n THEN Some(CursorOf(k + 1)) ELSE Some(CursorOf(1)))] :
          size \in [1..n -> 0..MaxPageSize],
          kind \in { f \in [1..n -> {"absent", "empty", "link"}] :
                        \A k \in 1..(n - 1) : f[k] /= "absent" } } :
      n \in 1..MaxPages }

MaxItemsValues == {None} \cup {Some(m) : m \in 0..MaxCap}

\* paginate(fetchPage, { maxItems }) was called: the generator is suspended at
\* its start, nothing has run.
InitPaginate ==
    /\ config = [maxRetries |-> 0, retryDelay |-> 1000, timeout |-> 5000]
    /\ pc = "paginate"
    /\ attempt = 0
    /\ lastError = None
    /\ now = StartTime
    /\ timer = None
    /\ aborted = FALSE
    /\ sleepFor = 0
    /\ outcome = None
    /\ nAttempts = 0
    /\ sleeps = <<>>
    /\ attemptErr = None
    /\ lastResp = None
    /\ trace = <<>>
    /\ hrIn = None
    /\ hrOut = None
    /\ CtorIdle
    /\ ApiIdle
    /\ upstream \in Upstreams
    /\ maxItems \in MaxItemsValues
    /\ optionsCursor = None
    /\ pgPc = "suspendedStart"
    /\ pgCursor = None
    /\ pgResponse = None
    /\ pgIndex = 0
    /\ totalYielded = 0
    /\ yielded = <<>>
    /\ fetchLog = <<>>
    /\ sentLog = <<>>
    /\ fetchTick = 0
    /\ waiting = FALSE
    /\ inFlight = 0
    /\ rejected = None
    /\ pgThrown = None
    /\ items = <<>>
    /\ collectOut = None

\* Mutant: the assignment cursor = response.nextCursor is lost, every call
\* passes the cursor of the call before.
CallFetchPageStale(cur, settled) ==
    /\ pgPc' = "awaiting"
    /\ pgCursor' = pgCursor
    /\ fetchLog' = IF Len(fetchLog) < FetchLimit THEN Append(fetchLog, pgCursor) ELSE fetchLog
    /\ sentLog' = IF Len(sentLog) < FetchLimit
               THEN Append(sentLog, IteratorRequest(IteratorOptions, pgCursor)) ELSE sentLog
    /\ fetchTick' = 1 - fetchTick
    /\ inFlight' = inFlight - settled + 1
    /\ waiting' = TRUE
    /\ UNCHANGED <<pgIndex, yielded, collectOut>>

\* await fetchPage(cur): the call is issued and the generator waits for it;
\* settled is the number of calls that settled in the same step.
CallFetchPage(cur, settled) ==
    /\ pgPc' = "awaiting"
    /\ pgCursor' = cur
    /\ fetchLog' = IF Len(fetchLog) < FetchLimit THEN Append(fetchLog, cur) ELSE fetchLog
    /\ sentLog' = IF Len(sentLog) < FetchLimit
               THEN Append(sentLog, IteratorRequest(IteratorOptions, cur)) ELSE sentLog
    /\ fetchTick' = 1 - fetchTick
    /\ inFlight' = inFlight - settled + 1
    /\ waiting' = TRUE
    /\ UNCHANGED <<pgIndex, yielded, collectOut>>

\* Mutant: a page without items ends the traversal, cursor or not.
LoopFromStopsOnEmpty(resp, i, settled) ==
    IF HasItem(resp, i)
    THEN /\ pgPc' = "suspendedYield"
         /\ pgIndex' = i
         /\ yielded' = Append(yielded, resp.data[i])
         /\ waiting' = FALSE
         /\ inFlight' = inFlight - settled
         /\ UNCHANGED <<pgCursor, fetchLog, sentLog, fetchTick, collectOut>>
    ELSE IF WhileCursor(resp.nextCursor) /\ resp.data /= <<>>
    THEN CallFetchPage(resp.nextCursor, settled)
    ELSE /\ pgPc' = "completed"
         /\ pgCursor' = resp.nextCursor
         /\ waiting' = FALSE
         /\ inFlight' = inFlight - settled
         /\ collectOut' = Some(Return(items'))
         /\ UNCHANGED <<pgIndex, yielded, fetchLog, sentLog, fetchTick>>

\* The generator runs from position i of the for...of loop over resp.data to
\* where it stops next: the yield of item i, the next fetchPage call, or its end
\* when the cursor of the page is falsy; at its end the for await loop of
\* collectAll ends and collectAll returns its items.
LoopFrom(resp, i, settled) ==
    IF HasItem(resp, i)
    THEN /\ pgPc' = "suspendedYield"
         /\ pgIndex' = i
         /\ yielded' = Append(yielded, resp.data[i])
         /\ waiting' = FALSE
         /\ inFlight' = inFlight - settled
         /\ UNCHANGED <<pgCursor, fetchLog, sentLog, fetchTick, collectOut>>
    ELSE IF WhileCursor(resp.nextCursor)
    THEN CallFetchPage(resp.nextCursor, settled)
    ELSE /\ pgPc' = "completed"
         /\ pgCursor' = resp.nextCursor
         /\ waiting' = FALSE
         /\ inFlight' = inFlight - settled
         /\ collectOut' = Some(Return(items'))
         /\ UNCHANGED <<pgIndex, yielded, fetchLog, sentLog, fetchTick>>

\* Mutant: collectAll puts each item at the front of its list.
CollectUnshift(list, item) == <<item>> \o list

\* items.push(item) in the for await loop of collectAll.
CollectPush(list, item) == Append(list, item)

\* Mutant: the pagination layer wraps the error of fetchPage in a new error.
PropagateWrapped(err) == Obj(0, ScrapeBadgerError(err.e.message))

\* An error thrown inside a function that has no try block leaves it as it is:
\* paginate has none around await fetchPage, collectAll none around for await.
Propagate(err) == err

\* The consumer calls next(): the loop body of the consumer (collectAll pushes
\* the item it was handed) has run, and the generator starts, or resumes after
\* its yield with totalYielded++ and the test of the cap.
ConsumerNext ==
    /\ pgPc \in {"suspendedStart", "suspendedYield"}
    /\ ~waiting
    /\ Len(yielded) <= RequestLimit
    /\ items' = IF pgPc = "suspendedYield"
                THEN CollectPush(items, Get(pgResponse).data[pgIndex]) ELSE items
    /\ UNCHANGED <<rejected, pgThrown>>
    /\ IF pgPc = "suspendedStart"
       THEN /\ CallFetchPage(None, 0)
            /\ UNCHANGED <<totalYielded, pgResponse>>
       ELSE /\ totalYielded' = totalYielded + 1
            /\ UNCHANGED pgResponse
            /\ IF CapReached(maxItems, totalYielded')
               THEN /\ pgPc' = "completed"
                    /\ waiting' = FALSE
                    /\ collectOut' = Some(Return(items'))
                    /\ UNCHANGED <<pgCursor, pgIndex, yielded, fetchLog, sentLog, fetchTick,
                                    inFlight>>
               ELSE LoopFrom(Get(pgResponse), pgIndex + 1, 0)
    /\ UNCHANGED <<engineVars, hrIn, hrOut, ctorVars, apiVars, upstream, maxItems,
                   optionsCursor>>

\* The fetchPage call in flight resolves with its page and the generator runs on.
FetchPageResolves ==
    /\ pgPc = "awaiting"
    /\ UNCHANGED <<rejected, pgThrown, items>>
    /\ LET resp == IteratorFetchPage(upstream, IteratorOptions, pgCursor) IN
          /\ pgResponse' = Some(resp)
          /\ LoopFrom(resp, 1, 1)
    /\ UNCHANGED <<engineVars, hrIn, hrOut, ctorVars, apiVars, upstream, maxItems,
                   optionsCursor, totalYielded>>

\* The errors a fetchPage call may reject with: what the request engine throws.
FetchPageErrors ==
    {ServerError(MsgUpper, 503), NotFoundError(MsgForbidden), TypeError}

\* The fetchPage call in flight rejects: the await throws inside the generator,
\* which ends with the error, and so does the for await loop of collectAll.
FetchPageRejects ==
    /\ pgPc = "awaiting"
    /\ \E e \in FetchPageErrors :
          LET err == Obj(Len(fetchLog), e) IN
          /\ rejected' = Some(err)
          /\ pgThrown' = Some(Propagate(err))
          /\ collectOut' = Some(Throw(Propagate(Propagate(err))))
    /\ pgPc' = "failed"
    /\ waiting' = FALSE
    /\ inFlight' = inFlight - 1
    /\ UNCHANGED <<engineVars, hrIn, hrOut, ctorVars, apiVars, upstream, maxItems,
                   optionsCursor, totalYielded,
                   pgCursor, pgResponse, pgIndex, yielded, fetchLog, sentLog, fetchTick,
                   items>>

NextPaginate ==
    \/ ConsumerNext
    \/ FetchPageResolves
    \/ FetchPageRejects

SpecPaginate == InitPaginate /\ [][NextPaginate]_vars

\* The consumer keeps requesting items and every fetchPage call settles.
SpecPaginateFair ==
    /\ InitPaginate
    /\ [][NextPaginate]_vars
    /\ WF_vars(ConsumerNext)
    /\ WF_vars(FetchPageResolves)

\* The cursor options a caller passes to an iterator method: none, or the
\* cursor of a page.
OptionsCursors == {None, Some(CursorOf(2)), Some(CursorOf(MaxPages))}

\* An iterator method (searchAll, getFollowersAll, ...) was called with options
\* that may carry a cursor: its generator is suspended at its start.
InitIterator ==
    /\ EngineIdle("iterator")
    /\ CtorIdle
    /\ ApiIdle
    /\ upstream \in Upstreams
    /\ maxItems \in {None, Some(MaxCap - 2)}
    /\ optionsCursor \in OptionsCursors
    /\ pgPc = "suspendedStart"
    /\ pgCursor = None
    /\ pgResponse = None
    /\ pgIndex = 0
    /\ totalYielded = 0
    /\ yielded = <<>>
    /\ fetchLog = <<>>
    /\ sentLog = <<>>
    /\ fetchTick = 0
    /\ waiting = FALSE
    /\ inFlight = 0
    /\ rejected = None
    /\ pgThrown = None
    /\ items = <<>>
    /\ collectOut = None

SpecIterator == InitIterator /\ [][NextPaginate]_vars

----------------------------------------------------------------------------
(* BaseClient.request: the URL, the headers and the options of a request *)

\* The headers request builds: its four defaults, then the caller's headers.
RequestHeaders(apiKey, headers) ==
    Spread([k \in {"Content-Type", "Accept", "X-API-Key", "User-Agent"} |->
               CASE k = "Content-Type" -> "application/json"
                 [] k = "Accept" -> "application/json"
                 [] k = "X-API-Key" -> apiKey
                 [] k = "User-Agent" -> "scrapebadger-node/0.1.0"],
           headers)

\* The JSON text of a body, kept apart from the body itself.
JsonStringify(body) == [json |-> body]

\* A value is truthy unless it is the empty string, 0, false or null; a value
\* is given with its type and its literal.
TruthyValue(x) ==
    CASE x.type = "string" -> x.v /= ""
      [] x.type = "number" -> x.v /= "0"
      [] x.type = "boolean" -> x.v = "true"
      [] x.type = "null" -> FALSE
      [] x.type = "object" -> TRUE

\* body && method !== "GET": the body is sent when it is truthy and the method
\* is not GET.
SendsBody(body, method) == IsSome(body) /\ TruthyValue(Get(body)) /\ method /= "GET"

\* request(path, options) up to its call of executeWithRetry: the url and the
\* fetchOptions it passes on.
Request(cfg, path, options) ==
    LET method == IF IsSome(options.method) THEN Get(options.method) ELSE "GET"
        headers == IF IsSome(options.headers) THEN Get(options.headers) ELSE NoEntries
        url == [base |-> cfg.baseUrl, path |-> path,
                searchParams |-> SearchParams(options.params)]
        base == [method |-> method,
                 headers |-> RequestHeaders(cfg.apiKey, headers)]
    IN [url |-> url,
        fetchOptions |->
            IF SendsBody(options.body, method)
            THEN [method |-> base.method, headers |-> base.headers,
                  body |-> Some(JsonStringify(Get(options.body)))]
            ELSE [method |-> base.method, headers |-> base.headers, body |-> None]]

\* The header names a caller overrides or adds.
CallerHeaderNames == {"X-API-Key", "Accept", "Content-Type", "X-Request-Id"}

\* The headers option: absent, or an object over some of the names.
CallerHeaders ==
    {None} \cup
    UNION {{Some(h) : h \in [names -> {"", "caller-value"}]} :
              names \in SUBSET CallerHeaderNames}

\* The params option of a listing call: absent, or a cursor and a count that
\* may each be undefined.
CallerParams ==
    {None} \cup
    {Some([cursor |-> c, count |-> n]) :
        c \in {None, Some([type |-> "string", v |-> "2"])},
        n \in {None, Some([type |-> "number", v |-> 20]),
                     Some([type |-> "boolean", v |-> 0])}}

\* The body option: absent, or a value of any JSON type, falsy ones among them.
CallerBodies ==
    {None} \cup
    {Some([type |-> t, v |-> v]) :
        <<t, v>> \in {<<"object", "{\"ids\":[1]}">>, <<"string", "">>, <<"string", "text">>,
                      <<"number", "0">>, <<"number", "7">>, <<"boolean", "false">>,
                      <<"boolean", "true">>, <<"null", "null">>}}

RequestOptionsSet ==
    [method : {None, Some("GET"), Some("POST")},
     params : CallerParams,
     body : CallerBodies,
     headers : CallerHeaders]

\* The resolved configs of the clients that build requests.
RequestConfigs ==
    [apiKey : {"config-api-key", "env-api-key"}, baseUrl : {DEFAULT_BASE_URL}]

InitRequest ==
    /\ EngineIdle("request")
    /\ CtorIdle
    /\ PgIdle
    /\ reqIn \in {Some([config |-> c, path |-> "/v1/twitter/tweets", options |-> o]) :
                     c \in RequestConfigs, o \in RequestOptionsSet}
    /\ reqOut = None
    /\ TravIdle
    /\ ConcIdle

\* client.request(path, options) runs up to its call of executeWithRetry.
BuildRequest ==
    /\ pc = "request"
    /\ reqOut = None
    /\ reqOut' = Some(Request(Get(reqIn).config, Get(reqIn).path, Get(reqIn).options))
    /\ UNCHANGED <<engineVars, hrIn, hrOut, ctorVars, pgVars, reqIn, travVars, concVars>>

NextRequest == BuildRequest

SpecRequest == InitRequest /\ [][NextRequest]_vars

----------------------------------------------------------------------------
(* Two paginate traversals over one fetchPage *)

\* The traversals: two invocations of paginate with the same fetchPage.
Traversals == {1, 2}

\* Mutant: cursor and totalYielded are module variables that every invocation
\* of paginate uses.
ActivationShared(i) == 1

\* The activation whose locals invocation i of paginate reads and writes:
\* cursor and totalYielded are declared with let inside the function body, so
\* each invocation has its own.
Activation(i) == i

\* The locals of an activation of paginate that has not run: cursor is
\* undefined, totalYielded is 0, no response was read and no loop entered.
FreshLocals == [cursor |-> None, totalYielded |-> 0, response |-> None, index |-> 0]

\* The generator with locals loc runs from position i of the for...of loop
\* over resp.data to where it stops next: it yields item i, or calls fetchPage
\* with the cursor of the page, or ends when that cursor is falsy.
GenLoop(loc, resp, i) ==
    IF HasItem(resp, i)
    THEN [pc |-> "suspendedYield", loc |-> [loc EXCEPT !.index = i],
          out |-> Some(resp.data[i]), call |-> None]
    ELSE IF WhileCursor(resp.nextCursor)
    THEN [pc |-> "awaiting", loc |-> [loc EXCEPT !.cursor = resp.nextCursor],
          out |-> None, call |-> Some(resp.nextCursor)]
    ELSE [pc |-> "completed", loc |-> [loc EXCEPT !.cursor = resp.nextCursor],
          out |-> None, call |-> None]

\* One run of a generator of paginate from where it stands to where it stops
\* next: started by next() (let cursor; let totalYielded = 0; then the first
\* fetchPage call), resumed by next() after a yield, or resumed by the page of
\* its fetchPage call.
GenAdvance(at, cap, loc, up) ==
    CASE at = "suspendedStart" ->
            [pc |-> "awaiting",
             loc |-> [loc EXCEPT !.cursor = FreshLocals.cursor,
                                 !.totalYielded = FreshLocals.totalYielded],
             out |-> None, call |-> Some(FreshLocals.cursor)]
      [] at = "suspendedYield" ->
            LET counted == [loc EXCEPT !.totalYielded = @ + 1] IN
            IF CapReached(cap, counted.totalYielded)
            THEN [pc |-> "completed", loc |-> counted, out |-> None, call |-> None]
            ELSE GenLoop(counted, Get(counted.response), counted.index + 1)
      [] at = "awaiting" ->
            LET resp == FetchPage(up, loc.cursor) IN
            GenLoop([loc EXCEPT !.response = Some(resp)], resp, 1)

\* The runs of one traversal whose history is kept: more than a traversal of
\* two full pages takes.
StepLimit == 2 * MaxPageSize + MaxCap + 3

\* A traversal that has not started: its position, its options.maxItems and
\* the history of what it yielded, which fetchPage calls it made and how many
\* runs it took.
NewTraversal(cap) ==
    [pc |-> "suspendedStart", maxItems |-> cap, yielded |-> <<>>, calls |-> <<>>,
     steps |-> 0]

\* A traversal after a run of its generator that ended as r says; its history
\* is kept for StepLimit runs.
Ran(t, r) ==
    IF t.steps >= StepLimit THEN [t EXCEPT !.pc = r.pc]
    ELSE [pc |-> r.pc,
          maxItems |-> t.maxItems,
          yielded |-> IF r.out = None THEN t.yielded ELSE Append(t.yielded, Get(r.out)),
          calls |-> IF r.call = None THEN t.calls ELSE Append(t.calls, Get(r.call)),
          steps |-> t.steps + 1]

\* The pages the shared fetchPage reads: the listings of at most two pages.
TravUpstreams == {u \in Upstreams : Len(u) <= 2}

\* The caps of the two traversals.
TravCaps == {None, Some(MaxCap - 2)}

InitTraversals ==
    /\ EngineIdle("traversals")
    /\ CtorIdle
    /\ PgIdle
    /\ ReqIdle
    /\ ConcIdle
    /\ travUpstream \in TravUpstreams
    /\ travs \in {[i \in Traversals |-> NewTraversal(c[i])] : c \in [Traversals -> TravCaps]}
    /\ locals = [a \in Traversals |-> FreshLocals]

\* Traversal i runs once and its locals and history are updated.
TraversalRuns(i) ==
    LET a == Activation(i)
        r == GenAdvance(travs[i].pc, travs[i].maxItems, locals[a], travUpstream)
    IN /\ travs' = [travs EXCEPT ![i] = Ran(@, r)]
       /\ locals' = [locals EXCEPT ![a] = r.loc]
       /\ UNCHANGED <<engineVars, hrIn, hrOut, ctorVars, pgVars, reqVars, concVars,
                       travUpstream>>

\* The consumer of traversal i calls next().
TraversalNext(i) ==
    /\ pc = "traversals"
    /\ travs[i].pc \in {"suspendedStart", "suspendedYield"}
    /\ travs[i].steps < StepLimit
    /\ TraversalRuns(i)

\* The fetchPage call of traversal i resolves.
TraversalPageResolves(i) ==
    /\ pc = "traversals"
    /\ travs[i].pc = "awaiting"
    /\ TraversalRuns(i)

NextTraversals ==
    \/ \E i \in Traversals : TraversalNext(i)
    \/ \E i \in Traversals : TraversalPageResolves(i)

SpecTraversals == InitTraversals /\ [][NextTraversals]_vars

----------------------------------------------------------------------------
(* Concurrent requests on one client *)

\* The requests in flight at once on one client.
Requests == {1, 2}

\* Mutant: attempt, lastError and the timeout timer are fields of the client
\* that every request uses.
CallFrameShared(i) == 1

\* The activation whose locals request i reads and writes: attempt and lastError
\* are locals of executeWithRetry, the controller and the timer are locals of
\* fetchWithTimeout, so each request has its own.
CallFrame(i) == i

\* The locals of a request that has not entered its loop.
FreshFrame == [attempt |-> 0, lastError |-> None, timer |-> None, aborted |-> FALSE]

\* How a run of a request ends: where it stands, its locals, what it settled
\* with if it did, whether it made an attempt and how long it sleeps if it does.
RunEnd(at, f, out, attempted, slept) ==
    [pc |-> at, f |-> f, outcome |-> out, attempted |-> attempted, slept |-> slept]

\* The head of the for loop with attempt = k at time t, on the locals f: the
\* next fetchWithTimeout call with its own controller and timer, or the throw
\* after the loop.
HeadOf(f, k, t, cfg) ==
    IF LoopCondition(k, cfg)
    THEN RunEnd("fetching",
                [f EXCEPT !.attempt = k,
                          !.timer = Some([attempt |-> k, due |-> t + cfg.timeout]),
                          !.aborted = FALSE],
                None, 1, None)
    ELSE RunEnd("thrown", [f EXCEPT !.attempt = k], Some(AfterLoop(f.lastError)), 0, None)

\* The catch block of executeWithRetry on the locals f, entered at time t with
\* the error object.
CatchOf(f, error, t, cfg) ==
    LET caught == [f EXCEPT !.lastError = Some(error)] IN
    IF IsFatal(error.e) THEN RunEnd("thrown", caught, Some(Throw(error)), 0, None)
    ELSE IF LastAttempt(f.attempt, cfg)
    THEN RunEnd("thrown", caught, Some(AfterLoop(caught.lastError)), 0, None)
    ELSE RunEnd("sleeping", caught, None, 0,
                Some(SleepDuration(error.e, f.attempt, t, cfg)))

\* One run of a request that stands at the given position with locals f and
\* has made n attempts, on the event ev, under the config cfg.
RequestRun(at, f, n, ev, cfg) ==
    LET cleared == [f EXCEPT !.timer = ClearTimeout(f.timer)] IN
    CASE ev.kind = "start" ->
            HeadOf([f EXCEPT !.lastError = None], 0, ev.t, cfg)
      [] ev.kind = "responds" ->
            LET r == HandleResponse(Get(ev.response)) IN
            IF r.tag = "return" THEN RunEnd("returned", cleared, Some(r), 0, None)
            ELSE CatchOf(cleared, Obj(n, r.error), ev.t, cfg)
      [] ev.kind = "fails" ->
            CatchOf(cleared, Obj(n, TypeError), ev.t, cfg)
      [] ev.kind = "timerFires" ->
            RunEnd(at, [f EXCEPT !.timer = None, !.aborted = TRUE], None, 0, None)
      [] ev.kind = "aborted" ->
            CatchOf(cleared, Obj(n, TimeoutError(cfg.timeout)), ev.t, cfg)
      [] ev.kind = "sleepEnds" ->
            HeadOf(f, f.attempt + 1, ev.t, cfg)

\* A request that has not started: its position, what it settled with, and the
\* history of its attempts, its sleeps, when its sleep ends and what happened
\* to it.
NewCall ==
    [pc |-> "start", outcome |-> None, nAttempts |-> 0, sleeps |-> <<>>,
     wake |-> None, events |-> <<>>]

\* A request after a run on the event ev that ended as r says.
AfterRun(c, r, ev) ==
    [pc |-> r.pc,
     outcome |-> IF r.outcome = None THEN c.outcome ELSE r.outcome,
     nAttempts |-> c.nAttempts + r.attempted,
     sleeps |-> IF r.slept = None THEN c.sleeps ELSE Append(c.sleeps, Get(r.slept)),
     wake |-> IF r.slept = None THEN c.wake ELSE Some(ev.t + Get(r.slept)),
     events |-> Append(c.events, ev)]

Event(kind, t, response) == [kind |-> kind, t |-> t, response |-> response]

\* The responses the server gives to the attempts of concurrent requests at
\* time t: a payload, a missing resource, an overloaded server, and a rate
\* limit with and without a reset ten seconds ahead.
ConcResponses(t) ==
    {Response(st, Some("application/json"),
              JsonBody([EmptyObject EXCEPT !.data = Some("payload")])) :
        st \in {200, 404, 503}}
    \cup
    {Response(429, Some("application/json"),
              JsonBody([EmptyObject EXCEPT !.detail = Some(MsgForbidden),
                                           !.reset_at = r])) :
        r \in {None, Some(t \div 1000 + 10)}}

\* The configs of the client: no retry or one, the delays of the engine's.
ConcConfigs == {c \in Configs : c.maxRetries \in {0, 1} /\ c.retryDelay = 1000}

InitConcurrent ==
    /\ EngineIdle("concurrent")
    /\ CtorIdle
    /\ PgIdle
    /\ ReqIdle
    /\ TravIdle
    /\ sharedConfig \in {Some(c) : c \in ConcConfigs}
    /\ calls = [i \in Requests |-> NewCall]
    /\ frames = [a \in Requests |-> FreshFrame]
    /\ clock = StartTime

\* The times at which a timer of request j is due: the end of its sleep, or the
\* timeout of its attempt in flight.
Deadlines(j) ==
    IF calls[j].pc = "sleeping" THEN {Get(calls[j].wake)}
    ELSE IF /\ calls[j].pc = "fetching"
            /\ ~frames[CallFrame(j)].aborted
            /\ IsSome(frames[CallFrame(j)].timer)
    THEN {Get(frames[CallFrame(j)].timer).due}
    ELSE {}

\* No timer is due before t.
NoneDueBefore(t) == \A j \in Requests : \A d \in Deadlines(j) : d >= t

\* Request i runs on the event ev at the time of the event.
Runs(i, ev) ==
    LET a == CallFrame(i)
        r == RequestRun(calls[i].pc, frames[a], calls[i].nAttempts, ev, Get(sharedConfig))
    IN /\ calls' = [calls EXCEPT ![i] = AfterRun(@, r, ev)]
       /\ frames' = [frames EXCEPT ![a] = r.f]
       /\ clock' = ev.t
       /\ UNCHANGED <<engineVars, hrIn, hrOut, ctorVars, pgVars, reqVars, travVars,
                       sharedConfig>>

\* request() of call i reaches executeWithRetry.
CallStarts(i) ==
    /\ pc = "concurrent"
    /\ calls[i].pc = "start"
    /\ Runs(i, Event("start", clock, None))

\* The fetch of call i resolves with a response before its timer fires.
CallResponds(i) ==
    /\ pc = "concurrent"
    /\ calls[i].pc = "fetching" /\ ~frames[CallFrame(i)].aborted
    /\ \E response \in ConcResponses(clock) :
          Runs(i, Event("responds", clock, Some(response)))

\* The fetch of call i rejects with a network failure.
CallFails(i) ==
    /\ pc = "concurrent"
    /\ calls[i].pc = "fetching" /\ ~frames[CallFrame(i)].aborted
    /\ Runs(i, Event("fails", clock, None))

\* The timer of the attempt of call i fires, no other timer being due before.
CallTimerFires(i) ==
    /\ pc = "concurrent"
    /\ calls[i].pc = "fetching" /\ ~frames[CallFrame(i)].aborted
    /\ IsSome(frames[CallFrame(i)].timer)
    /\ NoneDueBefore(Get(frames[CallFrame(i)].timer).due)
    /\ Runs(i, Event("timerFires", Get(frames[CallFrame(i)].timer).due, None))

\* The aborted fetch of call i rejects.
CallAborted(i) ==
    /\ pc = "concurrent"
    /\ calls[i].pc = "fetching" /\ frames[CallFrame(i)].aborted
    /\ Runs(i, Event("aborted", clock, None))

\* The sleep of call i ends, no other timer being due before.
CallSleepEnds(i) ==
    /\ pc = "concurrent"
    /\ calls[i].pc = "sleeping"
    /\ SleepResolves(calls[i].sleeps[Len(calls[i].sleeps)])
    /\ NoneDueBefore(Get(calls[i].wake))
    /\ Runs(i, Event("sleepEnds", Get(calls[i].wake), None))

NextConcurrent ==
    \/ \E i \in Requests : CallStarts(i)
    \/ \E i \in Requests : CallResponds(i)
    \/ \E i \in Requests : CallFails(i)
    \/ \E i \in Requests : CallTimerFires(i)
    \/ \E i \in Requests : CallAborted(i)
    \/ \E i \in Requests : CallSleepEnds(i)

SpecConcurrent == InitConcurrent /\ [][NextConcurrent]_vars

----------------------------------------------------------------------------
(* Properties of the retry loop *)

\* The latest attempt issued has ended.
Ended == nAttempts >= 1 /\ Len(trace) = nAttempts

LastEnd == trace[Len(trace)]

\* The endings the retry policy calls transient: a 5xx, a 429, a timeout.
TransientEnds == {"5xx", "rl", "rl_usable", "timeout"}

OnlyTransient == \A i \in DOMAIN trace : trace[i] \in TransientEnds

RECURSIVE Doubling(_, _)
\* d, 2d, 4d, ...: the i-th term, from i = 1.
Doubling(d, i) == IF i <= 1 THEN d ELSE 2 * Doubling(d, i - 1)

\* C1: with maxRetries = n >= 0 and every attempt ending in a 5xx, a 429 or a
\* timeout, the request never returns, never makes more than n+1 attempts, fails
\* only after exactly n+1 attempts, and has failed once the (n+1)-th attempt ended.
C1_TransientExactlyNPlus1 ==
    (config.maxRetries >= 0 /\ OnlyTransient) =>
        /\ nAttempts <= config.maxRetries + 1
        /\ pc /= "returned"
        /\ (pc = "thrown" => nAttempts = config.maxRetries + 1)
        /\ (Len(trace) = config.maxRetries + 1 => pc = "thrown")

C1_Witness ==
    /\ config.maxRetries = 3
    /\ pc = "thrown"
    /\ trace = <<"5xx", "rl", "timeout", "5xx">>
    /\ nAttempts = 4

FatalNames ==
    {"AuthenticationError", "InsufficientCreditsError", "AccountRestrictedError",
     "NotFoundError", "ValidationError"}

\* C2: once an attempt's response is classified as Authentication,
\* InsufficientCredits, AccountRestricted, NotFound or Validation, the request has
\* failed with that very error, that attempt is the last one made, and no sleep
\* followed it (one sleep before each earlier retry, none after).
C2_FatalFailsAtOnce ==
    (IsSome(attemptErr) /\ Get(attemptErr).e.name \in FatalNames) =>
        /\ pc = "thrown"
        /\ outcome = Some(Throw(Get(attemptErr)))
        /\ Get(attemptErr).id = nAttempts
        /\ Len(trace) = nAttempts
        /\ Len(sleeps) = nAttempts - 1

C2_Witness ==
    /\ config.maxRetries = 3
    /\ nAttempts = 2
    /\ IsSome(attemptErr)
    /\ Get(attemptErr).e.name = "NotFoundError"
    /\ pc = "thrown"

\* C3: the sleep after the zero-indexed attempt k (the (k+1)-th attempt) lasts
\* retryDelay * 2^k unless that attempt ended in a 429 with a usable reset
\* timestamp; a sleep follows an attempt only when attempts remain.
C3_ExponentialDelays ==
    /\ Len(sleeps) <= Len(trace)
    /\ \A i \in DOMAIN sleeps :
          /\ i <= config.maxRetries
          /\ trace[i] /= "rl_usable" => sleeps[i] = Doubling(config.retryDelay, i)

C3_Witness ==
    /\ sleeps = <<2000, 4000, 8000>>
    /\ trace = <<"timeout", "5xx", "generic">>
    /\ pc = "sleeping"

\* The reset_at of the latest response, as the body gives it.
LastResetAt == Get(Get(lastResp).body.value).reset_at

\* C4: while the engine sleeps after a 429 rate-limit error on attempt k, with
\* serverDelay = reset_at * 1000 - now: the sleep lasts serverDelay when reset_at
\* is present and 0 < serverDelay < 60000, and retryDelay * 2^k otherwise.
C4_RateLimitSleep ==
    (pc = "sleeping" /\ LastEnd \in {"rl", "rl_usable"}
        /\ Get(attemptErr).e.name = "RateLimitError") =>
        /\ sleeps[Len(sleeps)] = sleepFor
        /\ attempt < config.maxRetries
        /\ IF /\ IsSome(LastResetAt)
              /\ LastResetAt[1] * 1000 - now > 0
              /\ LastResetAt[1] * 1000 - now < 60000
           THEN sleepFor = LastResetAt[1] * 1000 - now
           ELSE sleepFor = Doubling(config.retryDelay, attempt + 1)

C4_Witness ==
    /\ pc = "sleeping"
    /\ attempt = 2
    /\ LastEnd = "rl_usable"
    /\ sleepFor = 59000
    /\ config.retryDelay = 1000

\* C5: a request that fails when its attempts are used up fails with the error
\* object the last attempt threw, itself.
C5_LastErrorSurfaces ==
    (pc = "thrown" /\ nAttempts >= 1 /\ nAttempts = config.maxRetries + 1) =>
        /\ Get(attemptErr).id = nAttempts
        /\ outcome = Some(Throw(Get(attemptErr)))

C5_Witness ==
    /\ pc = "thrown"
    /\ trace = <<"timeout", "rl", "5xx", "network">>
    /\ Get(outcome).error = [id |-> 4, e |-> TypeError]

\* The latest response has a body handleResponse can read: valid JSON under a
\* JSON content type, or any text under another content type.
LastBodyReadable ==
    IsJsonContentType(Get(lastResp).contentType) => Get(lastResp).body.form = "json"

\* The latest response's body, parsed.
LastBodyParsed ==
    IF IsJsonContentType(Get(lastResp).contentType)
    THEN Get(lastResp).body.value
    ELSE Some([EmptyObject EXCEPT !.detail = Some(Get(lastResp).body.text)])

C7_TimeoutError ==
    (Ended /\ LastEnd = "timeout") =>
        /\ aborted
        /\ Get(attemptErr) = [id |-> nAttempts,
                              e |-> [name |-> "TimeoutError",
                                     message |-> Get(attemptErr).e.message,
                                     timeout |-> config.timeout]]
        /\ InstanceOf(Get(attemptErr).e, "ScrapeBadgerError")
        /\ IF attempt < config.maxRetries
           THEN pc = "sleeping" /\ sleepFor = Doubling(config.retryDelay, attempt + 1)
           ELSE pc = "thrown" /\ outcome = Some(Throw(Get(attemptErr)))

C7_Witness ==
    /\ pc = "sleeping"
    /\ LastEnd = "timeout"
    /\ attempt = 1
    /\ Get(attemptErr).e.timeout = 5000
    /\ now >= StartTime + 2 * 5000

\* C8 as stated: every error a request fails with is a ScrapeBadgerError.
C8_FailuresInTaxonomy ==
    pc = "thrown" => InstanceOf(Get(outcome).error.e, "ScrapeBadgerError")


----------------------------------------------------------------------------
(* Properties of handleResponse *)

\* The response handed to handleResponse has a body that parses to an object: a
\* JSON object under a JSON content type, or any text under another content type.
InputIsObject ==
    IF IsJsonContentType(Get(hrIn).contentType)
    THEN Get(hrIn).body.form = "json" /\ IsSome(Get(hrIn).body.value)
    ELSE TRUE

InputObject ==
    IF IsJsonContentType(Get(hrIn).contentType)
    THEN Get(Get(hrIn).body.value)
    ELSE [EmptyObject EXCEPT !.detail = Some(Get(hrIn).body.text)]

\* detail, else message, else "Request failed".
InputMessage ==
    IF IsSome(InputObject.detail) THEN InputObject.detail[1]
    ELSE IF IsSome(InputObject.message) THEN InputObject.message[1]
    ELSE RequestFailed

\* The kind each status other than 2xx and 403 maps to.
ExpectedKind(status) ==
    CASE status = 401 -> "AuthenticationError"
      [] status = 402 -> "InsufficientCreditsError"
      [] status = 404 -> "NotFoundError"
      [] status = 422 -> "ValidationError"
      [] status = 429 -> "RateLimitError"
      [] status \in 500..599 -> "ServerError"
      [] OTHER -> "ScrapeBadgerError"

\* C9: for a response with a status outside 200..299 and a body that parses to an
\* object, handleResponse throws an error whose kind is the one of the status: 401
\* Authentication, 402 InsufficientCredits, 404 NotFound, 422 Validation, 429
\* RateLimit, 5xx ServerError (with that status code), 403 one of AccountRestricted
\* and Authentication, every other status the root ScrapeBadgerError.
C9_StatusToKind ==
    (IsSome(hrOut) /\ Get(hrIn).status \notin 200..299 /\ InputIsObject) =>
        /\ Get(hrOut).tag = "throw"
        /\ IF Get(hrIn).status = 403
           THEN Get(hrOut).error.name \in {"AccountRestrictedError", "AuthenticationError"}
           ELSE Get(hrOut).error.name = ExpectedKind(Get(hrIn).status)
        /\ Get(hrIn).status \in 500..599 =>
              Get(hrOut).error.statusCode = Get(hrIn).status

C9_Witness ==
    /\ IsSome(hrOut)
    /\ Get(hrIn).status = 418
    /\ InputIsObject
    /\ Get(hrOut).tag = "throw"
    /\ Get(hrOut).error.name = "ScrapeBadgerError"

\* Two characters are the same letter, whatever their case.
SameLetter(a, b) ==
    a = b \/ \E i \in DOMAIN Upper : {a, b} = {Upper[i], Lower[i]}

ContainsAnyCase(s, needle) ==
    \E i \in 0..(Len(s) - Len(needle)) :
        \A j \in 1..Len(needle) : SameLetter(s[i + j], needle[j])

\* C10: for a 403 response with a body that parses to an object, handleResponse
\* throws an AccountRestrictedError carrying the body's reason when the message
\* (detail, else message, else "Request failed") contains "restricted" in any
\* letter case, and an AuthenticationError otherwise.
C10_Restricted403 ==
    (IsSome(hrOut) /\ Get(hrIn).status = 403 /\ InputIsObject) =>
        Get(hrOut) =
            IF ContainsAnyCase(InputMessage, Restricted)
            THEN [tag |-> "throw",
                  error |-> [name |-> "AccountRestrictedError",
                             message |-> InputMessage,
                             reason |-> InputObject.reason]]
            ELSE [tag |-> "throw",
                  error |-> [name |-> "AuthenticationError",
                             message |-> InputMessage]]

C10_Witness ==
    /\ IsSome(hrOut)
    /\ Get(hrIn).status = 403
    /\ InputIsObject
    /\ InputMessage = MsgMixed
    /\ Get(hrOut).error.name = "AccountRestrictedError"
    /\ Get(hrOut).error.reason = Some(MsgPolicy)

----------------------------------------------------------------------------
(* Properties of client construction *)

\* The credential the environment holds, if any.
EnvCredential == 
    IF Get(ctorIn).env = None THEN None ELSE Get(Get(ctorIn).env).SCRAPEBADGER_API_KEY

\* The credential the config argument holds, if any.
ConfigCredential == Get(ctorIn).config.apiKey

\* A credential that is a non-empty string.
NonEmpty(k) == k /= None /\ k /= Some("")

Constructed == ctorOut /= None /\ Get(ctorOut).result.tag = "return"

ResolvedConfig == Get(ctorOut).result.value.baseClient.config

\* C12: when neither the config argument nor the environment holds a
\* credential, the constructor throws its "API key is required" error before
\* resolveConfig is called and before a BaseClient is created, and no fetch
\* call has been made.
C12_MissingKeyFailsFirst ==
    (ctorOut /= None /\ ~NonEmpty(ConfigCredential) /\ ~NonEmpty(EnvCredential)) =>
        /\ Get(ctorOut).result = Throw(PlainError(ApiKeyRequiredMessage))
        /\ \A i \in DOMAIN Get(ctorOut).calls :
              Get(ctorOut).calls[i] \notin {"resolveConfig", "BaseClient", "TwitterClient"}
        /\ nAttempts = 0
        /\ pc = "noclient"

C12_Witness ==
    /\ ctorOut /= None
    /\ ConfigCredential = Some("")
    /\ EnvCredential = None
    /\ Get(ctorIn).env /= None
    /\ Get(ctorOut).result.tag = "throw"
    /\ Get(ctorOut).calls = <<>>

\* C13: when the config credential or the environment credential is a
\* non-empty string, construction succeeds and the resolved credential is the
\* config's when the config gives one, the environment's otherwise.
C13_CredentialPrecedence ==
    (ctorOut /= None /\ (NonEmpty(ConfigCredential) \/ NonEmpty(EnvCredential))) =>
        /\ Constructed
        /\ ResolvedConfig.apiKey =
              IF NonEmpty(ConfigCredential)
              THEN Get(ConfigCredential) ELSE Get(EnvCredential)

\* C14: in a constructed client each of baseUrl, timeout, maxRetries and
\* retryDelay is the caller's value when the config gives one (0 included) and
\* otherwise its default: https://api.scrapebadger.com, 30000, 3, 1000.
C14_DefaultsPerField ==
    Constructed =>
        LET given == Get(ctorIn).config IN
        /\ ResolvedConfig.baseUrl =
             IF given.baseUrl = None
             THEN "https://api.scrapebadger.com" ELSE given.baseUrl[1]
        /\ ResolvedConfig.timeout =
             IF given.timeout = None THEN 30000 ELSE given.timeout[1]
        /\ ResolvedConfig.maxRetries =
             IF given.maxRetries = None THEN 3 ELSE given.maxRetries[1]
        /\ ResolvedConfig.retryDelay =
             IF given.retryDelay = None THEN 1000 ELSE given.retryDelay[1]

C14_Witness ==
    /\ Constructed
    /\ Get(ctorIn).config.baseUrl = None
    /\ Get(ctorIn).config.timeout = Some(0)
    /\ Get(ctorIn).config.maxRetries = Some(5)
    /\ Get(ctorIn).config.retryDelay = None
    /\ ResolvedConfig.timeout = 0
    /\ ResolvedConfig.retryDelay = 1000

----------------------------------------------------------------------------
(* Properties of pagination *)

\* A cursor that is a non-empty string.
IsLink(c) == c /= None /\ c /= Some("")

\* The page a non-empty cursor of the upstream names.
Named(c) == CHOOSE k \in DOMAIN upstream : ToString(k) = c[1]

\* The page the latest fetchPage call asked for: the call was made with the
\* cursor local.
LastAsked == IF pgCursor = None THEN 1 ELSE Named(pgCursor)

\* The items of the upstream from page k on, following the non-empty cursors
\* for at most fuel pages.
RECURSIVE Walk(_, _)
Walk(k, fuel) ==
    IF fuel = 0 THEN <<>>
    ELSE upstream[k].data \o
         (IF IsLink(upstream[k].next_cursor)
          THEN Walk(Named(upstream[k].next_cursor), fuel - 1) ELSE <<>>)

\* The pages read from page k on until need items were met.
RECURSIVE PagesFor(_, _, _)
PagesFor(k, need, fuel) ==
    IF fuel = 0 THEN 0
    ELSE IF Len(upstream[k].data) >= need \/ ~IsLink(upstream[k].next_cursor) THEN 1
    ELSE 1 + PagesFor(Named(upstream[k].next_cursor),
                      need - Len(upstream[k].data), fuel - 1)

\* The items of pages 1..p, in order.
RECURSIVE ItemsUpTo(_)
ItemsUpTo(p) == IF p = 0 THEN <<>> ELSE ItemsUpTo(p - 1) \o upstream[p].data

IsPrefix(s, t) == Len(s) <= Len(t) /\ s = SubSeq(t, 1, Len(s))

\* C15: every response createPaginatedResponse has built has hasMore true
\* exactly when its nextCursor is present, whether the cursor argument was
\* absent, the empty string or a non-empty string.
C15_HasMoreIffCursorPresent ==
    pgResponse /= None =>
        (Get(pgResponse).hasMore <=> Get(pgResponse).nextCursor /= None)

\* The first page that gives no cursor to go on with (none, or an empty one).
LastPage == CHOOSE p \in DOMAIN upstream :
                /\ ~IsLink(upstream[p].next_cursor)
                /\ \A k \in 1..(p - 1) : IsLink(upstream[k].next_cursor)

Endless == \A k \in DOMAIN upstream : IsLink(upstream[k].next_cursor)

\* C16: with no maxItems, over an upstream whose first page without a cursor to
\* go on with is page p, paginate hands over a prefix of the items of pages
\* 1..p in their order, never calls fetchPage more than p times, and when it
\* has ended it has handed over exactly those items and called fetchPage
\* exactly p times, once per page, in page order.
C16_AllPagesInOrder ==
    (maxItems = None /\ pgPc /= "idle" /\ ~Endless) =>
        /\ IsPrefix(yielded, ItemsUpTo(LastPage))
        /\ Len(fetchLog) <= LastPage
        /\ \A i \in DOMAIN fetchLog :
              fetchLog[i] = IF i = 1 THEN None ELSE upstream[i - 1].next_cursor
        /\ pgPc = "completed" =>
              /\ yielded = ItemsUpTo(LastPage)
              /\ Len(fetchLog) = LastPage

C16_Witness ==
    /\ maxItems = None
    /\ pgPc = "completed"
    /\ Len(upstream) = 3
    /\ Len(upstream[1].data) = 2
    /\ Len(upstream[2].data) = 2
    /\ Len(upstream[3].data) = 1
    /\ upstream[3].next_cursor = None
    /\ Len(yielded) = 5
    /\ Len(fetchLog) = 3

\* C17: with maxItems = m >= 0, paginate never hands over more than m items.
C17_AtMostMaxItems ==
    maxItems /= None => Len(yielded) <= maxItems[1]

\* C18: with maxItems = m >= 1 over an upstream that holds at least m items,
\* paginate hands over a prefix of the upstream's items, never more than m of
\* them, never fetches a page beyond the one that holds the m-th item, fetches
\* nothing once m items were handed over, and has handed over exactly the
\* first m items when it has ended.
C18_StopsAtCap ==
    (pgPc /= "idle" /\ maxItems /= None /\ maxItems[1] >= 1
       /\ Len(Walk(1, FetchLimit)) >= maxItems[1]) =>
        LET m == maxItems[1] IN
        /\ Len(yielded) <= m
        /\ yielded = SubSeq(Walk(1, FetchLimit), 1, Len(yielded))
        /\ Len(fetchLog) <= PagesFor(1, m, FetchLimit)
        /\ Len(yielded) = m => pgPc \in {"suspendedYield", "completed"}
        /\ pgPc = "completed" => Len(yielded) = m

\* The m-th item is the last item of a page that carries a cursor.
C18_Witness ==
    /\ maxItems = Some(2)
    /\ pgPc = "completed"
    /\ Len(upstream) >= 2
    /\ Len(upstream[1].data) = 2
    /\ upstream[1].next_cursor = Some("2")
    /\ Len(upstream[2].data) = 2
    /\ yielded = upstream[1].data
    /\ fetchLog = <<None>>

\* C19: at most one fetchPage call is in flight; a fetchPage call is issued
\* only within a request of the consumer that is still unanswered, after every
\* earlier call has settled and after every item of the page fetched before
\* was handed over; while the consumer has no request outstanding and makes
\* none, no fetchPage call is issued.
C19_SerialAndLazy ==
    /\ [](inFlight \in {0, 1} /\ (inFlight = 1 <=> pgPc = "awaiting"))
    /\ [][fetchTick' /= fetchTick =>
            /\ waiting'
            /\ inFlight' = 1
            /\ Len(fetchLog) >= 1 =>
                  /\ pgResponse' /= None
                  /\ Len(yielded') >= Len(upstream[LastAsked].data)
                  /\ SubSeq(yielded', Len(yielded') - Len(upstream[LastAsked].data) + 1,
                            Len(yielded')) = upstream[LastAsked].data]_vars
    /\ [][(~waiting /\ ~waiting') => (fetchLog' = fetchLog /\ fetchTick' = fetchTick)]_vars

C19_Witness ==
    /\ pgPc = "awaiting"
    /\ Len(fetchLog) = 3
    /\ Len(yielded) = 4
    /\ inFlight = 1
    /\ waiting

\* A cap is set and finitely many pages hold as many items as it counts.
CapReachable ==
    /\ maxItems /= None
    /\ Len(Walk(1, FetchLimit)) >= maxItems[1]

\* C20: when the upstream gives a page without a cursor after finitely many
\* pages, or a cap is set that is reached after finitely many pages, a consumer
\* that keeps requesting items eventually reaches the end of the sequence,
\* unless a fetchPage call fails and ends the traversal with its error first.
C20_Terminates ==
    (pgPc = "suspendedStart" /\ (~Endless \/ CapReachable))
        ~> (pgPc = "completed" \/ rejected /= None)

\* C25: no sleep precedes the first attempt; while attempt k+1 is in flight
\* exactly k sleeps have happened, one after each earlier attempt; the sleep in
\* progress is either the server's rate-limit delay (after a 429 with a usable
\* reset) or the exponential delay, not their sum; and a request that has ended
\* slept once between consecutive attempts and not after its last one.
C25_OneSleepBetweenAttempts ==
    /\ pc = "start" => (sleeps = <<>> /\ nAttempts = 0)
    /\ pc = "fetching" => Len(sleeps) = nAttempts - 1
    /\ pc = "sleeping" =>
          /\ Len(sleeps) = nAttempts
          /\ Len(trace) = nAttempts
          /\ attempt < config.maxRetries
          /\ sleeps[Len(sleeps)] = sleepFor
          /\ IF LastEnd = "rl_usable"
             THEN sleepFor = LastResetAt[1] * 1000 - now
             ELSE sleepFor = Doubling(config.retryDelay, attempt + 1)
    /\ pc \in {"thrown", "returned"} =>
          Len(sleeps) = IF nAttempts = 0 THEN 0 ELSE nAttempts - 1

C25_Witness ==
    /\ pc = "thrown"
    /\ config.maxRetries = 2
    /\ config.retryDelay = 1000
    /\ nAttempts = 3
    /\ trace = <<"rl_usable", "5xx", "timeout">>
    /\ sleeps = <<10000, 2000>>

\* C26: a response with a 4xx status other than 429 ends the request: no sleep
\* and no further attempt follows it.
C26_ClientErrorsNotRetried ==
    (Ended /\ LastEnd \in {"fatal", "generic"}
        /\ Get(lastResp).status \in (400..499) \ {429}) =>
        pc = "thrown"

\* C27: a timer is pending only while the attempt it was started for is in
\* flight and not yet aborted, so that none is pending once the attempt has
\* ended (by a response, a transport failure or the timeout) and never more
\* than the one of the current attempt; an attempt is aborted only by the timer
\* started for it, at the time that timer is due.
C27_TimerScopedToAttempt ==
    /\ [](timer /= None =>
             /\ pc = "fetching"
             /\ ~aborted
             /\ Get(timer).attempt = attempt
             /\ Len(trace) = nAttempts - 1)
    /\ [](pc \in {"start", "sleeping", "thrown", "returned"} => timer = None)
    /\ [][(aborted' /\ ~aborted) =>
             /\ timer /= None
             /\ Get(timer).attempt = attempt'
             /\ now' = Get(timer).due
             /\ timer' = None]_vars
    /\ [][(timer' /= None /\ timer' /= timer) =>
             /\ timer = None
             /\ Get(timer').attempt = attempt'
             /\ Get(timer').due = now' + config.timeout]_vars

C27_Witness ==
    /\ pc = "fetching"
    /\ attempt = 2
    /\ trace = <<"timeout", "network">>
    /\ timer /= None
    /\ Get(timer).attempt = 2
    /\ ~aborted

\* C30: the error handleResponse builds from a response with a status outside
\* 200..299 and a body that parses to an object carries the fields of its kind
\* as the body gives them, absent where the body has none: InsufficientCredits
\* the credits balance, AccountRestricted the reason, Validation the errors
\* mapping, RateLimit the reset timestamp, the limit and the remaining count,
\* ServerError the status code.
C30_KindFields ==
    (IsSome(hrOut) /\ Get(hrIn).status \notin 200..299 /\ InputIsObject) =>
        LET e == Get(hrOut).error
            o == InputObject
            status == Get(hrIn).status
        IN  /\ Get(hrOut).tag = "throw"
            /\ status = 402 =>
                  (e.name = "InsufficientCreditsError"
                     /\ e.creditsBalance = o.credits_balance)
            /\ e.name = "AccountRestrictedError" =>
                  (status = 403 /\ e.reason = o.reason)
            /\ status = 422 => (e.name = "ValidationError" /\ e.errors = o.errors)
            /\ status = 429 =>
                  /\ e.name = "RateLimitError"
                  /\ e.retryAfter = o.reset_at
                  /\ e.limit = o.limit
                  /\ e.remaining = o.remaining
            /\ status \in 500..599 =>
                  (e.name = "ServerError" /\ e.statusCode = status)

C30_Witness ==
    /\ IsSome(hrOut)
    /\ Get(hrIn).status = 429
    /\ InputIsObject
    /\ InputObject.reset_at = Some(1700000000)
    /\ InputObject.limit = None
    /\ InputObject.remaining = Some(0)
    /\ Get(hrOut).tag = "throw"
    /\ Get(hrOut).error.remaining = Some(0)
    /\ Get(hrOut).error.limit = None

\* C28: the first fetchPage call of a traversal receives no cursor, every
\* later call receives the nextCursor of the page the call before it returned,
\* and over an upstream whose pages give distinct cursors no cursor is passed
\* twice.
C28_CursorThreading ==
    /\ [](Len(fetchLog) >= 1 => fetchLog[1] = None)
    /\ [][fetchTick' /= fetchTick =>
            /\ pgCursor' = IF pgPc = "suspendedStart"
                           THEN None ELSE Get(pgResponse').nextCursor
            /\ Len(fetchLog') > Len(fetchLog) => fetchLog'[Len(fetchLog')] = pgCursor'
            /\ pgPc = "suspendedStart" <=> fetchLog = <<>>]_vars
    /\ [](~Endless => \A i, j \in DOMAIN fetchLog : fetchLog[i] = fetchLog[j] => i = j)

C28_Witness ==
    /\ maxItems = Some(4)
    /\ fetchLog = <<None, Some("2"), Some("3")>>
    /\ pgCursor = Some("3")
    /\ Get(pgResponse).nextCursor = Some("1")
    /\ Len(yielded) = 3

\* What the consumer has after a fetchPage call rejected: the generator has
\* ended with the very error of the call, collectAll has thrown it, no call is
\* in flight, and the items handed over are those of the pages read before.
FailedWith(err) ==
    /\ pgPc = "failed"
    /\ pgThrown = Some(err)
    /\ collectOut = Some([tag |-> "throw", error |-> err])
    /\ inFlight = 0
    /\ Len(fetchLog) < FetchLimit => /\ yielded = Walk(1, Len(fetchLog) - 1)
                                     /\ items = yielded

\* C21: when a fetchPage call fails, the consumer of the traversal and the
\* caller of collectAll receive that same error object, after the items of the
\* pages fetched before it; the step that fails makes no fetchPage call, and
\* nothing happens after it: no retry and no further fetchPage call.
C21_ErrorPropagates ==
    [][/\ pgPc /= "failed"
       /\ rejected' /= None => /\ FailedWith(rejected[1])'
                               /\ fetchTick' = fetchTick
                               /\ fetchLog' = fetchLog]_vars

\* A call for a later page failed after the items of two pages were handed over.
C21_Witness ==
    /\ rejected /= None
    /\ Len(fetchLog) >= 3
    /\ Len(yielded) >= 2
    /\ items = yielded
    /\ rejected[1].e.name = "ServerError"

\* C22: when collectAll returns over a finite sequence, the traversal has
\* completed and the list returned holds exactly the items the sequence
\* yielded, as many and in the same order; over a sequence that yielded
\* nothing it is the empty list.
C22_CollectAll ==
    (collectOut /= None /\ collectOut[1].tag = "return") =>
        /\ pgPc = "completed"
        /\ Len(collectOut[1].value) = Len(yielded)
        /\ \A i \in 1..Len(yielded) : collectOut[1].value[i] = yielded[i]
        /\ yielded = <<>> => collectOut[1].value = <<>>

\* collectAll returned three items or more that came from two pages or more.
C22_Witness ==
    /\ collectOut /= None
    /\ collectOut[1].tag = "return"
    /\ Len(collectOut[1].value) >= 3
    /\ collectOut[1].value[1] /= collectOut[1].value[3]
    /\ Len(fetchLog) >= 2

\* collectAll returned the empty list over a sequence that yielded nothing.
C22_WitnessEmpty ==
    /\ collectOut = Some([tag |-> "return", value |-> <<>>])
    /\ yielded = <<>>

\* The value the caller passed for the header name, if any.
CallerHeader(name) ==
    LET h == reqIn[1].options.headers IN
    IF h /= None /\ name \in DOMAIN h[1] THEN <<h[1][name]>> ELSE <<>>

\* C24 (as stated): every request built carries the header X-API-Key and its
\* value is the apiKey of the client's resolved config, whatever headers the
\* caller passed.
C24_CredentialHeader ==
    reqOut /= None =>
        /\ "X-API-Key" \in DOMAIN reqOut[1].fetchOptions.headers
        /\ reqOut[1].fetchOptions.headers["X-API-Key"] = reqIn[1].config.apiKey

\* C24 (amended): every request built carries the header X-API-Key; its value
\* is the apiKey of the client's resolved config when the caller's headers do
\* not name X-API-Key, and the caller's value, even an empty one, when they do.
C24_CredentialUnlessOverridden ==
    reqOut /= None =>
        /\ "X-API-Key" \in DOMAIN reqOut[1].fetchOptions.headers
        /\ reqOut[1].fetchOptions.headers["X-API-Key"] =
              (IF CallerHeader("X-API-Key") = <<>>
               THEN reqIn[1].config.apiKey ELSE CallerHeader("X-API-Key")[1])

\* A request was built whose caller passed a value for X-API-Key, and the
\* request carries that value and not the config's.
C24_Witness ==
    /\ reqOut /= None
    /\ CallerHeader("X-API-Key") = <<"caller-value">>
    /\ reqOut[1].fetchOptions.headers["X-API-Key"] = "caller-value"
    /\ reqIn[1].config.apiKey = "config-api-key"

\* One more run of a traversal that has no other traversal beside it.
AloneRun(s, cap) ==
    LET r == GenAdvance(s.t.pc, cap, s.loc, travUpstream) IN
    [t |-> Ran(s.t, r), loc |-> r.loc]

\* A traversal and its locals n runs after s, with no other traversal beside it.
RECURSIVE AloneFrom(_, _, _)
AloneFrom(s, cap, n) ==
    IF n = 0 \/ s.t.pc = "completed" THEN s ELSE AloneFrom(AloneRun(s, cap), cap, n - 1)

\* A traversal with the cap and its locals after n runs alone.
Alone(cap, n) == AloneFrom([t |-> NewTraversal(cap), loc |-> FreshLocals], cap, n)

\* C29: of two traversals over the same fetchPage, run one after the other or
\* interleaved in any way, each has at every moment yielded the same items,
\* made the same fetchPage calls and reached the same position as a traversal
\* with its cap that ran alone for as many steps.
C29_TraversalsIndependent ==
    travs /= <<>> =>
        \A i \in Traversals :
            travs[i].steps < StepLimit =>
                LET alone == Alone(travs[i].maxItems, travs[i].steps).t IN
                /\ travs[i].yielded = alone.yielded
                /\ travs[i].calls = alone.calls
                /\ travs[i].pc = alone.pc

\* Both traversals have ended after two fetchPage calls each: the first, with
\* no cap, yielded three items or more, the second stopped at its cap.
C29_Witness ==
    /\ travs /= <<>>
    /\ \A i \in Traversals :
          /\ travs[i].pc = "completed"
          /\ Len(travs[i].calls) = 2
    /\ travs[1].maxItems = <<>>
    /\ Len(travs[1].yielded) >= 3
    /\ travs[2].maxItems /= <<>>
    /\ Len(travs[2].yielded) = travs[2].maxItems[1]

\* A request and its locals after the events evs from position k on, with no
\* other request beside it.
RECURSIVE AloneAfter(_, _, _, _)
AloneAfter(s, evs, k, cfg) ==
    IF k > Len(evs) THEN s
    ELSE LET r == RequestRun(s.c.pc, s.f, s.c.nAttempts, evs[k], cfg) IN
         AloneAfter([c |-> AfterRun(s.c, r, evs[k]), f |-> r.f], evs, k + 1, cfg)

\* The request that met the events evs alone on a client with the config cfg.
AloneCall(evs, cfg) == AloneAfter([c |-> NewCall, f |-> FreshFrame], evs, 1, cfg).c

\* C23: under every interleaving of two requests on one client, each request
\* has made the attempts, slept the sleeps and settled with the outcome of a
\* request that met the same responses, failures and timeouts alone, and the
\* config they share is never changed.
C23_RequestsIndependent ==
    [][/\ sharedConfig' = sharedConfig
       /\ \A i \in Requests :
             LET alone == AloneCall(calls'[i].events, sharedConfig'[1]) IN
             /\ calls'[i].nAttempts = alone.nAttempts
             /\ calls'[i].sleeps = alone.sleeps
             /\ calls'[i].outcome = alone.outcome
             /\ calls'[i].pc = alone.pc]_vars

\* Both requests have ended after a retry each and were in flight together:
\* the first returned after a rate limit whose delay it slept, the second
\* started while the first slept, slept the backoff delay and threw the
\* TimeoutError of its second attempt.
C23_Witness ==
    /\ calls /= <<>>
    /\ calls[1].pc = "returned" /\ calls[1].nAttempts = 2
    /\ calls[2].pc = "thrown" /\ calls[2].nAttempts = 2
    /\ calls[2].outcome[1].error.e.name = "TimeoutError"
    /\ calls[1].sleeps /= calls[2].sleeps
    /\ calls[1].events[1].t < calls[2].events[1].t
    /\ calls[2].events[1].t < calls[1].events[Len(calls[1].events)].t

\* C31: every request built carries Content-Type application/json and Accept
\* application/json whatever headers the caller passed, and for every other
\* header name the caller passed the request carries the caller's value.
C31_ContentNegotiation ==
    reqOut /= None =>
        LET sent == reqOut[1].fetchOptions.headers IN
        /\ "Content-Type" \in DOMAIN sent /\ sent["Content-Type"] = "application/json"
        /\ "Accept" \in DOMAIN sent /\ sent["Accept"] = "application/json"
        /\ \A name \in {"X-API-Key", "User-Agent", "X-Request-Id"} :
              CallerHeader(name) /= <<>> =>
                  /\ name \in DOMAIN sent
                  /\ sent[name] = CallerHeader(name)[1]

\* The method of the request being built: GET when the caller gave none.
MethodAsked ==
    IF reqIn[1].options.method = <<>> THEN "GET" ELSE reqIn[1].options.method[1]

\* C32: a request built carries a serialized body exactly when its method is
\* not GET and the caller passed a body, whatever the body is: 0, false, the
\* empty string and null are bodies too.
C32_BodyIffNotGet ==
    reqOut /= None =>
        (reqOut[1].fetchOptions.body /= <<>>
            <=> (MethodAsked /= "GET" /\ reqIn[1].options.body /= <<>>))

\* C33: the message of the error handleResponse throws for a response outside
\* 2xx is the body's detail when the body has one (an empty one too), else the
\* body's message when it has one, else "Request failed"; for a response that
\* is not JSON it is the raw text of the body.
C33_MessagePrecedence ==
    (IsSome(hrOut) /\ Get(hrIn).status \notin 200..299 /\ InputIsObject) =>
        /\ Get(hrOut).tag = "throw"
        /\ LET thrown == Get(hrOut).error.message
               json == IsJsonContentType(Get(hrIn).contentType)
               body == Get(hrIn).body
           IN IF ~json THEN thrown = body.text
              ELSE IF body.value[1].detail /= <<>> THEN thrown = body.value[1].detail[1]
              ELSE IF body.value[1].message /= <<>> THEN thrown = body.value[1].message[1]
              ELSE thrown = RequestFailed

\* An error was thrown with the empty detail of a JSON body that carries a
\* message as well.
C33_Witness ==
    /\ IsSome(hrOut)
    /\ Get(hrIn).status = 404
    /\ IsJsonContentType(Get(hrIn).contentType)
    /\ InputIsObject
    /\ Get(hrIn).body.value[1].detail = <<MsgEmpty>>
    /\ Get(hrIn).body.value[1].message = <<MsgUpper>>
    /\ Get(hrOut).tag = "throw"
    /\ Get(hrOut).error.message = MsgEmpty

\* An error was thrown with the message of a body without detail, one with
\* "Request failed" for a body with neither, one with the text of a body that
\* is not JSON.
C33_WitnessMessage ==
    /\ IsSome(hrOut) /\ Get(hrIn).status = 500 /\ InputIsObject
    /\ IsJsonContentType(Get(hrIn).contentType)
    /\ InputObject.detail = <<>> /\ InputObject.message = <<MsgForbidden>>
    /\ Get(hrOut).error.message = MsgForbidden

C33_WitnessDefault ==
    /\ IsSome(hrOut) /\ Get(hrIn).status = 400 /\ InputIsObject
    /\ IsJsonContentType(Get(hrIn).contentType)
    /\ InputObject.detail = <<>> /\ InputObject.message = <<>>
    /\ Get(hrOut).error.message = RequestFailed

C33_WitnessText ==
    /\ IsSome(hrOut) /\ Get(hrIn).status = 503
    /\ ~IsJsonContentType(Get(hrIn).contentType)
    /\ Get(hrOut).error.message = Get(hrIn).body.text
    /\ Get(hrIn).body.text = MsgNear

\* C34: whatever the attempts of a request end with, the rate-limit sleep that
\* skips the backoff included, the request never issues more than maxRetries+1
\* attempts (none when maxRetries is negative).
C34_AtMostNPlus1Attempts ==
    /\ nAttempts <= (IF config.maxRetries >= 0 THEN config.maxRetries + 1 ELSE 0)
    /\ Len(trace) <= nAttempts

\* A request has failed after maxRetries+1 attempts that were all answered by a
\* rate limit whose reset the engine slept for.
C34_Witness ==
    /\ pc = "thrown"
    /\ config.maxRetries >= 2
    /\ nAttempts = config.maxRetries + 1
    /\ \A i \in 1..Len(trace) : trace[i] = "rl_usable"
    /\ Len(trace) = nAttempts
    /\ \A i \in 1..Len(sleeps) : sleeps[i] > 2000 * 2^i

\* The request failed with the error made after the loop, which no attempt
\* threw.
FailedWithAfterRetries ==
    /\ pc = "thrown"
    /\ outcome /= <<>>
    /\ outcome[1].error.id = 0
    /\ outcome[1].error.e.name = "ScrapeBadgerError"

\* C35: a request that has failed has issued an attempt, whatever maxRetries
\* is, and a request that has issued an attempt never fails with the error
\* "Request failed after retries".
C35_AttemptBeforeFailure ==
    /\ pc = "thrown" => nAttempts >= 1
    /\ nAttempts >= 1 => ~FailedWithAfterRetries

\* C36: when the fetch of every attempt settles or is aborted by its timer and
\* every sleep ends, a request that was made eventually returns a result or
\* fails with an error.
C36_RequestSettles ==
    (pc = "start") ~> (pc \in {"returned", "thrown"} /\ outcome /= <<>>)

\* A request has settled after its last attempt was aborted by the timer and
\* the attempts before it were slept after.
C36_Witness ==
    /\ pc = "thrown"
    /\ outcome /= <<>>
    /\ nAttempts = 3
    /\ Len(sleeps) = nAttempts - 1
    /\ trace[Len(trace)] = "timeout"
    /\ trace[1] = "rl_usable"

\* The page the traversal is on: the one its latest fetchPage call asked for.
PageOn == upstream[LastAsked]

\* C37: when the page that arrives has no items and carries a cursor, the
\* traversal goes on with a fetchPage call for that cursor and yields nothing
\* meanwhile; a page that arrives with items has its first item yielded; and
\* the traversal ends only on a page without a cursor or when the cap is
\* reached.
C37_EmptyPageGoesOn ==
    [][/\ (pgPc = "awaiting" /\ rejected' = <<>>) =>
            IF PageOn.data = <<>>
            THEN /\ yielded' = yielded
                 /\ IsLink(PageOn.next_cursor) =>
                       /\ pgPc' = "awaiting"
                       /\ pgCursor' = PageOn.next_cursor
                       /\ fetchTick' /= fetchTick
            ELSE yielded' = Append(yielded, PageOn.data[1])
       /\ (pgPc /= "completed" /\ pgPc' = "completed") =>
            \/ ~IsLink(PageOn.next_cursor)
            \/ maxItems /= <<>> /\ totalYielded' >= maxItems[1]]_vars

\* A traversal over a first page without items that carries a cursor has ended
\* with the items of the second page.
C37_Witness ==
    /\ pgPc = "completed"
    /\ Len(upstream) >= 2
    /\ upstream[1].data = <<>>
    /\ upstream[1].next_cursor = <<"2">>
    /\ Len(upstream[2].data) = 2
    /\ yielded = upstream[2].data
    /\ Len(fetchLog) = 2

\* The page the API gave for request i of the traversal: the first page for a
\* request without a cursor parameter, the page the parameter names otherwise.
PageGivenFor(i) ==
    IF "cursor" \in DOMAIN sentLog[i]
    THEN upstream[CHOOSE k \in DOMAIN upstream : ToString(k) = sentLog[i].cursor]
    ELSE upstream[1]

\* C38: the first request of a traversal started through an iterator method
\* has no cursor parameter, whether or not the caller's options carry a cursor,
\* and every later request has as its cursor parameter the cursor of the page
\* the request before it was given.
C38_IteratorCursors ==
    \A i \in DOMAIN sentLog :
        IF i = 1
        THEN "cursor" \notin DOMAIN sentLog[i]
        ELSE /\ "cursor" \in DOMAIN sentLog[i]
             /\ <<sentLog[i].cursor>> = PageGivenFor(i - 1).next_cursor

\* The caller asked for the last page, and the traversal went through the
\* three pages from the first.
C38_Witness ==
    /\ optionsCursor = <<"3">>
    /\ Len(upstream) = 3
    /\ Len(sentLog) = 3
    /\ DOMAIN sentLog[1] = {}
    /\ sentLog[2].cursor = "2"
    /\ sentLog[3].cursor = "3"
    /\ pgPc = "completed"
    /\ Len(yielded) >= 2
    /\ yielded[1][1] = 1

====
